---- MODULE Spec2Model ----
(***************************************************************************)
(* A model of the axion table engine: the DataFrame container and its     *)
(* structural mutators (src/src/dataframe/core.rs), the type-erased        *)
(* column operations they call (src/src/series/core.rs), the hash joins    *)
(* and the multi-key sort.                                                 *)
(*                                                                         *)
(* An optional entry Option<T> is a sequence: <<>> is None, <<v>> is       *)
(* Some(v).  A column is a record [name, dtype, data]; a table is a record *)
(* [height, columns, schema], schema being a function from names to kinds. *)
(***************************************************************************)
EXTENDS Integers, Sequences, FiniteSets, TLC

VARIABLES df, pre, other, op, args, res, out, nref

vars == <<df, pre, other, op, args, res, out, nref>>

(***************************************************************************)
(* Bounds of the model.                                                    *)
(***************************************************************************)
MaxLen == 2

\* How many renames through a column_mut / column_at_mut reference a behaviour makes.
MaxRefRenames == 1

Names == {"a", "b", "c"}

DTypes == {"Int32", "Int64"}

MaxCols == Cardinality(Names)

(***************************************************************************)
(* Option<T>, AxionResult and AxionError.                                  *)
(***************************************************************************)
None == <<>>

Some(v) == <<v>>

Ok == [tag |-> "Ok", name |-> "", expected |-> 0, found |-> 0]

MismatchedLengths(e, f, n) == [tag |-> "MismatchedLengths", name |-> n, expected |-> e, found |-> f]

DuplicateColumnName(n) == [tag |-> "DuplicateColumnName", name |-> n, expected |-> 0, found |-> 0]

ColumnNotFound(n) == [tag |-> "ColumnNotFound", name |-> n, expected |-> 0, found |-> 0]

\* The kinds the error carries are left out: expected is always String.
JoinKeyTypeError(side, n) == [tag |-> "JoinKeyTypeError", name |-> n, expected |-> 0, found |-> 0]

IndexOutOfBounds(idx, length) == [tag |-> "IndexOutOfBounds", name |-> "", expected |-> length, found |-> idx]

InvalidArgument == [tag |-> "InvalidArgument", name |-> "", expected |-> 0, found |-> 0]

UnsupportedOperation(n) == [tag |-> "UnsupportedOperation", name |-> n, expected |-> 0, found |-> 0]

(***************************************************************************)
(* HashMap<String, DataType>: insert, remove, contains_key.                *)
(***************************************************************************)
EmptyMap == [n \in {} |-> "Null"]

contains_key(m, k) == k \in DOMAIN m

insert(m, k, v) == [n \in (DOMAIN m) \cup {k} |-> IF n = k THEN v ELSE m[n]]

remove(m, k) == [n \in (DOMAIN m) \ {k} |-> m[n]]

(***************************************************************************)
(* Vec helpers.                                                            *)
(***************************************************************************)
RemoveAt(s, i) == [j \in 1..(Len(s) - 1) |-> IF j < i THEN s[j] ELSE s[j + 1]]

\* Vec::iter().position(pred): the least index whose column has the name, 0 if none.
position(cols, n) ==
    IF \E i \in 1..Len(cols) : cols[i].name = n
    THEN CHOOSE i \in 1..Len(cols) :
            /\ cols[i].name = n
            /\ \A j \in 1..(i - 1) : cols[j].name # n
    ELSE 0

(***************************************************************************)
(* Series: the fields a table reads, and rename.                           *)
(***************************************************************************)
Series(n, t, d) == [name |-> n, dtype |-> t, data |-> d]

len(s) == Len(s.data)

rename(s, new_name) == [s EXCEPT !.name = new_name]

(***************************************************************************)
(* DataFrame constructors.                                                 *)
(***************************************************************************)
DataFrame(h, cols, sch) == [height |-> h, columns |-> cols, schema |-> sch]

new_empty == DataFrame(0, <<>>, EmptyMap)

\* The validation loop of DataFrame::new, from column i on, with the schema
\* built so far: the length check comes before the name check for each column.
RECURSIVE new_loop(_, _, _, _)
new_loop(columns, height, i, schema) ==
    IF i > Len(columns)
    THEN [res |-> Ok, df |-> DataFrame(height, columns, schema)]
    ELSE LET col == columns[i] IN
         IF len(col) # height
         THEN [res |-> MismatchedLengths(height, len(col), col.name), df |-> new_empty]
         ELSE IF contains_key(schema, col.name)
         THEN [res |-> DuplicateColumnName(col.name), df |-> new_empty]
         ELSE new_loop(columns, height, i + 1, insert(schema, col.name, col.dtype))

new(columns) ==
    LET height == IF Len(columns) = 0 THEN 0 ELSE len(columns[1])
    IN  new_loop(columns, height, 1, EmptyMap)

(***************************************************************************)
(* DataFrame mutators.  Each returns the result and the receiver as the    *)
(* call leaves it.                                                         *)
(***************************************************************************)
\* add_column without its length check.
add_column_no_length_check(d, series) ==
    IF contains_key(d.schema, series.name)
    THEN [res |-> DuplicateColumnName(series.name), df |-> d]
    ELSE [res |-> Ok,
          df |-> [d EXCEPT !.height = IF Len(d.columns) = 0 THEN len(series) ELSE @,
                           !.schema = insert(d.schema, series.name, series.dtype),
                           !.columns = Append(d.columns, series)]]

add_column(d, series) ==
    LET first == Len(d.columns) = 0 /\ d.height = 0
        \* self.height = series.len() is assigned before the name is checked
        d1 == IF first THEN [d EXCEPT !.height = len(series)] ELSE d
    IN  IF ~first /\ len(series) # d.height
        THEN [res |-> MismatchedLengths(d.height, len(series), series.name), df |-> d]
        ELSE IF contains_key(d1.schema, series.name)
        THEN [res |-> DuplicateColumnName(series.name), df |-> d1]
        ELSE [res |-> Ok,
              df |-> [d1 EXCEPT !.schema = insert(d1.schema, series.name, series.dtype),
                                !.columns = Append(d1.columns, series)]]

\* A drop_column that keeps the row count when the last column goes.
drop_column_keep_height(d, name) ==
    LET pos == position(d.columns, name) IN
    IF pos # 0
    THEN [res |-> Ok,
          df |-> DataFrame(d.height, RemoveAt(d.columns, pos), remove(d.schema, name))]
    ELSE [res |-> ColumnNotFound(name), df |-> d]

drop_column(d, name) ==
    LET pos == position(d.columns, name) IN
    IF pos # 0
    THEN LET cols == RemoveAt(d.columns, pos)
         IN  [res |-> Ok,
              df |-> DataFrame(IF Len(cols) = 0 THEN 0 ELSE d.height,
                               cols, remove(d.schema, name))]
    ELSE [res |-> ColumnNotFound(name), df |-> d]

\* rename_column without its check that the new name is free.
rename_column_no_duplicate_check(d, old_name, new_name) ==
    IF old_name = new_name
    THEN [res |-> Ok, df |-> d]
    ELSE IF ~contains_key(d.schema, old_name)
    THEN [res |-> ColumnNotFound(old_name), df |-> d]
    ELSE LET sch == insert(remove(d.schema, old_name), new_name, d.schema[old_name])
             pos == position(d.columns, old_name)
         IN  [res |-> Ok,
              df |-> [d EXCEPT !.schema = sch,
                               !.columns = IF pos = 0 THEN @
                                           ELSE [@ EXCEPT ![pos] = rename(@, new_name)]]]

rename_column(d, old_name, new_name) ==
    IF old_name = new_name
    THEN [res |-> Ok, df |-> d]
    ELSE IF ~contains_key(d.schema, old_name)
    THEN [res |-> ColumnNotFound(old_name), df |-> d]
    ELSE IF contains_key(d.schema, new_name)
    THEN [res |-> DuplicateColumnName(new_name), df |-> d]
    ELSE LET sch == insert(remove(d.schema, old_name), new_name, d.schema[old_name])
             pos == position(d.columns, old_name)
         IN  [res |-> Ok,
              df |-> [d EXCEPT !.schema = sch,
                               !.columns = IF pos = 0 THEN @
                                           ELSE [@ EXCEPT ![pos] = rename(@, new_name)]]]

\* column_mut / column_at_mut: the position of the column the reference is to, 0
\* when the call returns ColumnNotFound.
column_mut(d, name) == position(d.columns, name)

column_at_mut(d, index) == IF index \in 1..Len(d.columns) THEN index ELSE 0

\* SeriesTrait::rename through a reference obtained from the table: only the
\* column's own name field is written.
rename_through(d, pos, new_name) ==
    IF pos = 0 THEN d
    ELSE [d EXCEPT !.columns = [@ EXCEPT ![pos] = rename(@, new_name)]]

(***************************************************************************)
(* Inputs of the table operations.                                         *)
(***************************************************************************)
\* The data of an input column of length n: a missing first entry, then present ones.
DataPool(n) == {[i \in 1..n |-> IF i = 1 THEN None ELSE Some(i)]}

ColumnPool ==
    {Series(n, t, d) : n \in Names, t \in DTypes,
                       d \in UNION {DataPool(k) : k \in 0..MaxLen}}

RECURSIVE SeqsUpTo(_, _)
SeqsUpTo(S, n) ==
    IF n = 0 THEN {<<>>}
    ELSE LET shorter == SeqsUpTo(S, n - 1)
         IN  shorter \cup {Append(s, x) : s \in {t \in shorter : Len(t) = n - 1}, x \in S}

NoArgs == [columns |-> <<>>, name |-> "", new_name |-> "", index |-> 0,
           left_on |-> "", right_on |-> "", by |-> <<>>, descending |-> <<>>]

(***************************************************************************)
(* Actions: one per entry point.  A behaviour follows one table from its   *)
(* construction (new_empty, or one call of new) through its mutators; pre  *)
(* is the receiver before the last call, args the call's arguments.        *)
(***************************************************************************)
TableInit ==
    /\ df = new_empty
    /\ pre = new_empty
    /\ other = new_empty
    /\ out = new_empty
    /\ op = "init"
    /\ args = NoArgs
    /\ res = Ok
    /\ nref = 0

New ==
    /\ op = "init"
    /\ \E columns \in SeqsUpTo(ColumnPool, MaxCols) :
         LET r == new(columns) IN
         /\ df' = r.df
         /\ res' = r.res
         /\ args' = [NoArgs EXCEPT !.columns = columns]
    /\ pre' = df
    /\ op' = "new"
    /\ UNCHANGED <<other, out, nref>>

AddColumn ==
    /\ \E series \in ColumnPool :
         LET r == add_column(df, series) IN
         /\ df' = r.df
         /\ res' = r.res
         /\ args' = [NoArgs EXCEPT !.columns = <<series>>]
    /\ pre' = df
    /\ op' = "add_column"
    /\ UNCHANGED <<other, out, nref>>

DropColumn ==
    /\ \E name \in Names :
         LET r == drop_column(df, name) IN
         /\ df' = r.df
         /\ res' = r.res
         /\ args' = [NoArgs EXCEPT !.name = name]
    /\ pre' = df
    /\ op' = "drop_column"
    /\ UNCHANGED <<other, out, nref>>

RenameColumn ==
    /\ \E old_name \in Names, new_name \in Names :
         LET r == rename_column(df, old_name, new_name) IN
         /\ df' = r.df
         /\ res' = r.res
         /\ args' = [NoArgs EXCEPT !.name = old_name, !.new_name = new_name]
    /\ pre' = df
    /\ op' = "rename_column"
    /\ UNCHANGED <<other, out, nref>>

ColumnMutRename ==
    /\ nref < MaxRefRenames
    /\ \E name \in Names, new_name \in Names :
         LET pos == column_mut(df, name) IN
         /\ df' = rename_through(df, pos, new_name)
         /\ res' = IF pos = 0 THEN ColumnNotFound(name) ELSE Ok
         /\ args' = [NoArgs EXCEPT !.name = name, !.new_name = new_name]
    /\ pre' = df
    /\ op' = "column_mut.rename"
    /\ nref' = nref + 1
    /\ UNCHANGED <<other, out>>

ColumnAtMutRename ==
    /\ nref < MaxRefRenames
    /\ \E index \in 1..MaxCols, new_name \in Names :
         LET pos == column_at_mut(df, index) IN
         /\ df' = rename_through(df, pos, new_name)
         /\ res' = IF pos = 0 THEN ColumnNotFound("index") ELSE Ok
         /\ args' = [NoArgs EXCEPT !.index = index, !.new_name = new_name]
    /\ pre' = df
    /\ op' = "column_at_mut.rename"
    /\ nref' = nref + 1
    /\ UNCHANGED <<other, out>>

\* The table with its constructor and its three mutators.
Next == New \/ AddColumn \/ DropColumn \/ RenameColumn

Spec == TableInit /\ [][Next]_vars

\* The same, with rename through column_mut / column_at_mut references.
NextMut == Next \/ ColumnMutRename \/ ColumnAtMutRename

SpecMut == TableInit /\ [][NextMut]_vars

(***************************************************************************)
(* Column gathers.  Row indices are 1-based here, 0-based in the source.   *)
(***************************************************************************)
\* Series::new_from_options: the tag is T::DTYPE, the kind of the element type,
\* which is the tag of the column the data is taken from.
new_from_options(n, t, d) == Series(n, t, d)

\* The result of the first call that failed, Ok if none did.
FirstError(results) ==
    LET bad == {n \in 1..Len(results) : results[n].res.tag # "Ok"}
    IN  IF bad = {} THEN Ok
        ELSE results[CHOOSE n \in bad : \A m \in bad : n <= m].res

take_indices(s, indices) ==
    LET bad == {n \in 1..Len(indices) : indices[n] \notin 1..len(s)}
    IN  IF bad # {}
        THEN [res |-> IndexOutOfBounds(indices[CHOOSE n \in bad : \A m \in bad : n <= m], len(s)),
              series |-> s]
        ELSE [res |-> Ok,
              series |-> new_from_options(s.name, s.dtype,
                                          [n \in 1..Len(indices) |-> s.data[indices[n]]])]

take_indices_option(s, indices) ==
    LET bad == {n \in 1..Len(indices) : indices[n] # None /\ indices[n][1] \notin 1..len(s)}
    IN  IF bad # {}
        THEN [res |-> IndexOutOfBounds(indices[CHOOSE n \in bad : \A m \in bad : n <= m][1], len(s)),
              series |-> s]
        ELSE [res |-> Ok,
              series |-> new_from_options(s.name, s.dtype,
                             [n \in 1..Len(indices) |->
                                 IF indices[n] = None THEN None ELSE s.data[indices[n][1]]])]

(***************************************************************************)
(* Hash joins on one text key column per side.                             *)
(***************************************************************************)
ErrOut(e) == [res |-> e, df |-> new_empty]

\* DataFrame::column: the first column of that name, 0 if there is none.
column(d, name) == position(d.columns, name)

\* downcast_column::<String> with the join's map_err: the key column's position.
join_key(d, on, side) ==
    LET pos == column(d, on) IN
    IF pos = 0 THEN [res |-> ColumnNotFound(on), pos |-> 0]
    ELSE IF d.columns[pos].dtype # "String"
    THEN [res |-> JoinKeyTypeError(side, on), pos |-> 0]
    ELSE [res |-> Ok, pos |-> pos]

\* An index that leaves the rows with a missing key out.
RECURSIVE indices_map_skip_missing(_, _, _)
indices_map_skip_missing(data, idx, map) ==
    IF idx > Len(data) THEN map
    ELSE LET key == data[idx]
             old == IF key \in DOMAIN map THEN map[key] ELSE <<>>
         IN  indices_map_skip_missing(data, idx + 1,
                 IF key = None THEN map
                 ELSE [k \in (DOMAIN map) \cup {key} |->
                          IF k = key THEN Append(old, idx) ELSE map[k]])

\* The loop that builds HashMap<&Option<String>, Vec<usize>>:
\* entry(key).or_default().push(idx), for idx ascending.
RECURSIVE indices_map(_, _, _)
indices_map(data, idx, map) ==
    IF idx > Len(data) THEN map
    ELSE LET key == data[idx]
             old == IF key \in DOMAIN map THEN map[key] ELSE <<>>
         IN  indices_map(data, idx + 1,
                 [k \in (DOMAIN map) \cup {key} |->
                     IF k = key THEN Append(old, idx) ELSE map[k]])

EmptyIndex == [k \in {} |-> <<>>]

\* inner_join's probe loop emitting only the first match of a left row.
RECURSIVE inner_indices_first_match(_, _, _, _)
inner_indices_first_match(keys, map, left_idx, acc) ==
    IF left_idx > Len(keys) THEN acc
    ELSE LET key == keys[left_idx] IN
         inner_indices_first_match(keys, map, left_idx + 1,
             IF key \in DOMAIN map THEN Append(acc, <<left_idx, map[key][1]>>) ELSE acc)

\* inner_join's probe loop: (left_idx, right_idx) for every match.
RECURSIVE inner_indices(_, _, _, _)
inner_indices(keys, map, left_idx, acc) ==
    IF left_idx > Len(keys) THEN acc
    ELSE LET key == keys[left_idx] IN
         inner_indices(keys, map, left_idx + 1,
             IF key \in DOMAIN map
             THEN acc \o [n \in 1..Len(map[key]) |-> <<left_idx, map[key][n]>>]
             ELSE acc)

\* left_join's probe loop without its else branch: an unmatched left row is dropped.
RECURSIVE left_indices_matches_only(_, _, _, _)
left_indices_matches_only(keys, map, left_idx, acc) ==
    IF left_idx > Len(keys) THEN acc
    ELSE LET key == keys[left_idx] IN
         left_indices_matches_only(keys, map, left_idx + 1,
             IF key \in DOMAIN map
             THEN acc \o [n \in 1..Len(map[key]) |-> <<left_idx, Some(map[key][n])>>]
             ELSE acc)

\* left_join's probe loop: (left_idx, Some(right_idx)) for every match,
\* (left_idx, None) for a left row without one.
RECURSIVE left_indices(_, _, _, _)
left_indices(keys, map, left_idx, acc) ==
    IF left_idx > Len(keys) THEN acc
    ELSE LET key == keys[left_idx] IN
         left_indices(keys, map, left_idx + 1,
             IF key \in DOMAIN map
             THEN acc \o [n \in 1..Len(map[key]) |-> <<left_idx, Some(map[key][n])>>]
             ELSE Append(acc, <<left_idx, None>>))

\* right_join's probe loop without its else branch: an unmatched right row is dropped.
RECURSIVE right_indices_matches_only(_, _, _, _)
right_indices_matches_only(keys, map, right_idx, acc) ==
    IF right_idx > Len(keys) THEN acc
    ELSE LET key == keys[right_idx] IN
         right_indices_matches_only(keys, map, right_idx + 1,
             IF key \in DOMAIN map
             THEN acc \o [n \in 1..Len(map[key]) |-> <<Some(map[key][n]), right_idx>>]
             ELSE acc)

\* right_join's probe loop over the right rows, the index being of the left keys.
RECURSIVE right_indices(_, _, _, _)
right_indices(keys, map, right_idx, acc) ==
    IF right_idx > Len(keys) THEN acc
    ELSE LET key == keys[right_idx] IN
         right_indices(keys, map, right_idx + 1,
             IF key \in DOMAIN map
             THEN acc \o [n \in 1..Len(map[key]) |-> <<Some(map[key][n]), right_idx>>]
             ELSE Append(acc, <<None, right_idx>>))

\* outer_join's first loop: the left-driven pass, recording the right rows used.
RECURSIVE outer_left_pass(_, _, _, _, _)
outer_left_pass(keys, map, left_idx, acc, used) ==
    IF left_idx > Len(keys) THEN [join_indices |-> acc, used_right_indices |-> used]
    ELSE LET key == keys[left_idx] IN
         IF key \in DOMAIN map
         THEN outer_left_pass(keys, map, left_idx + 1,
                  acc \o [n \in 1..Len(map[key]) |-> <<Some(left_idx), Some(map[key][n])>>],
                  used \cup {map[key][n] : n \in 1..Len(map[key])})
         ELSE outer_left_pass(keys, map, left_idx + 1,
                  Append(acc, <<Some(left_idx), None>>), used)

\* outer_join's second loop without its test of used_right_indices.
RECURSIVE outer_right_pass_all_rows(_, _, _, _)
outer_right_pass_all_rows(n_right, used, right_idx, acc) ==
    IF right_idx > n_right THEN acc
    ELSE outer_right_pass_all_rows(n_right, used, right_idx + 1,
             Append(acc, <<None, Some(right_idx)>>))

\* outer_join's second loop: (None, Some(right_idx)) for every right row not used.
RECURSIVE outer_right_pass(_, _, _, _)
outer_right_pass(n_right, used, right_idx, acc) ==
    IF right_idx > n_right THEN acc
    ELSE outer_right_pass(n_right, used, right_idx + 1,
             IF right_idx \notin used THEN Append(acc, <<None, Some(right_idx)>>) ELSE acc)

\* into_iter().unzip()
unzip(pairs, side) == [n \in 1..Len(pairs) |-> pairs[n][side]]

\* A column loop that keeps the key column of the side that does not drive the join.
place_other_keep_key(taken, on, driving_names, suffix) ==
    [n \in 1..Len(taken) |->
        IF taken[n].name \in driving_names
        THEN rename(taken[n], taken[n].name \o suffix)
        ELSE taken[n]]

\* The loop over the columns of the side that does not drive the join: its key
\* column is left out, and a name the driving side has gets the suffix.
place_other(taken, on, driving_names, suffix) ==
    LET kept == SelectSeq(taken, LAMBDA c : c.name # on)
    IN  [n \in 1..Len(kept) |->
            IF kept[n].name \in driving_names
            THEN rename(kept[n], kept[n].name \o suffix)
            ELSE kept[n]]

\* Both column loops and the final DataFrame::new: drive and rest are the results
\* of the gathers of the driving side's and the other side's columns.
assemble(drive, rest, on, suffix) ==
    IF FirstError(drive) # Ok THEN ErrOut(FirstError(drive))
    ELSE LET kept == SelectSeq(rest, LAMBDA r : r.series.name # on)
         IN  IF FirstError(kept) # Ok THEN ErrOut(FirstError(kept))
             ELSE LET placed == [n \in 1..Len(drive) |-> drive[n].series]
                      names == {placed[n].name : n \in 1..Len(placed)}
                      others == place_other([n \in 1..Len(rest) |-> rest[n].series],
                                            on, names, suffix)
                  IN  new(placed \o others)

inner_join(left, right, left_on, right_on) ==
    LET lk == join_key(left, left_on, "left")
        rk == join_key(right, right_on, "right")
    IN  IF lk.res # Ok THEN ErrOut(lk.res)
        ELSE IF rk.res # Ok THEN ErrOut(rk.res)
        ELSE LET map == indices_map(right.columns[rk.pos].data, 1, EmptyIndex)
                 join_indices == inner_indices(left.columns[lk.pos].data, map, 1, <<>>)
                 li == unzip(join_indices, 1)
                 ri == unzip(join_indices, 2)
             IN  assemble([n \in 1..Len(left.columns) |-> take_indices(left.columns[n], li)],
                          [n \in 1..Len(right.columns) |-> take_indices(right.columns[n], ri)],
                          right_on, "_right")

left_join(left, right, left_on, right_on) ==
    LET lk == join_key(left, left_on, "left")
        rk == join_key(right, right_on, "right")
    IN  IF lk.res # Ok THEN ErrOut(lk.res)
        ELSE IF rk.res # Ok THEN ErrOut(rk.res)
        ELSE LET map == indices_map(right.columns[rk.pos].data, 1, EmptyIndex)
                 join_indices == left_indices(left.columns[lk.pos].data, map, 1, <<>>)
                 li == unzip(join_indices, 1)
                 ri == unzip(join_indices, 2)
             IN  assemble([n \in 1..Len(left.columns) |-> take_indices(left.columns[n], li)],
                          [n \in 1..Len(right.columns) |->
                              take_indices_option(right.columns[n], ri)],
                          right_on, "_right")

right_join(left, right, left_on, right_on) ==
    LET lk == join_key(left, left_on, "left")
        rk == join_key(right, right_on, "right")
    IN  IF lk.res # Ok THEN ErrOut(lk.res)
        ELSE IF rk.res # Ok THEN ErrOut(rk.res)
        ELSE LET map == indices_map(left.columns[lk.pos].data, 1, EmptyIndex)
                 join_indices == right_indices(right.columns[rk.pos].data, map, 1, <<>>)
                 li == unzip(join_indices, 1)
                 ri == unzip(join_indices, 2)
             IN  assemble([n \in 1..Len(right.columns) |-> take_indices(right.columns[n], ri)],
                          [n \in 1..Len(left.columns) |->
                              take_indices_option(left.columns[n], li)],
                          left_on, "_left")

outer_join(left, right, left_on, right_on) ==
    LET lk == join_key(left, left_on, "left")
        rk == join_key(right, right_on, "right")
    IN  IF lk.res # Ok THEN ErrOut(lk.res)
        ELSE IF rk.res # Ok THEN ErrOut(rk.res)
        ELSE LET map == indices_map(right.columns[rk.pos].data, 1, EmptyIndex)
                 pass == outer_left_pass(left.columns[lk.pos].data, map, 1, <<>>, {})
                 join_indices == outer_right_pass(Len(right.columns[rk.pos].data),
                                                  pass.used_right_indices, 1,
                                                  pass.join_indices)
                 li == unzip(join_indices, 1)
                 ri == unzip(join_indices, 2)
             IN  assemble([n \in 1..Len(left.columns) |->
                              take_indices_option(left.columns[n], li)],
                          [n \in 1..Len(right.columns) |->
                              take_indices_option(right.columns[n], ri)],
                          right_on, "_right")

(***************************************************************************)
(* The joins' inputs and actions: two valid tables and the two key names   *)
(* are drawn at the start, and each join is applied to them.               *)
(***************************************************************************)
KeyPool == {None, Some("x"), Some("y")}

Col(n, t) == [name |-> n, dtype |-> t]

LeftLayouts ==
    { <<Col("k", "String"), Col("v", "Int32")>>,
      <<Col("k", "String"), Col("v", "Int32"), Col("v_right", "Int32")>>,
      <<Col("k", "String"), Col("v", "Int32"), Col("v_left", "Int32")>> }

RightLayouts ==
    { <<Col("k", "String"), Col("v", "Int32")>>,
      <<Col("v", "Int32"), Col("k", "String"), Col("w", "Int32")>>,
      <<Col("id", "String"), Col("k", "Int32")>> }

\* The table of a layout: the text column holds the keys, an integer column
\* holds a present value that differs from row to row and from column to column.
LayoutTable(layout, keys, base) ==
    new([i \in 1..Len(layout) |->
            Series(layout[i].name, layout[i].dtype,
                   IF layout[i].dtype = "String" THEN keys
                   ELSE [r \in 1..Len(keys) |-> Some(base + 10 * i + r)])]).df

\* The key names given: the left key is k; v is an integer column, and a right
\* table has k or id as its text column.
JoinKeyPool == {<<"k", "k">>, <<"k", "id">>, <<"v", "k">>}

JoinInit ==
    /\ \E layout \in LeftLayouts, keys \in SeqsUpTo(KeyPool, MaxLen) :
         df = LayoutTable(layout, keys, 100)
    /\ \E layout \in RightLayouts, keys \in SeqsUpTo(KeyPool, MaxLen) :
         other = LayoutTable(layout, keys, 200)
    /\ \E on \in JoinKeyPool :
         args = [NoArgs EXCEPT !.left_on = on[1], !.right_on = on[2]]
    /\ pre = df
    /\ out = new_empty
    /\ op = "init"
    /\ res = Ok
    /\ nref = 0

InnerJoin ==
    /\ LET r == inner_join(df, other, args.left_on, args.right_on)
       IN  out' = r.df /\ res' = r.res
    /\ op' = "inner_join"
    /\ UNCHANGED <<df, pre, other, args, nref>>

LeftJoin ==
    /\ LET r == left_join(df, other, args.left_on, args.right_on)
       IN  out' = r.df /\ res' = r.res
    /\ op' = "left_join"
    /\ UNCHANGED <<df, pre, other, args, nref>>

RightJoin ==
    /\ LET r == right_join(df, other, args.left_on, args.right_on)
       IN  out' = r.df /\ res' = r.res
    /\ op' = "right_join"
    /\ UNCHANGED <<df, pre, other, args, nref>>

OuterJoin ==
    /\ LET r == outer_join(df, other, args.left_on, args.right_on)
       IN  out' = r.df /\ res' = r.res
    /\ op' = "outer_join"
    /\ UNCHANGED <<df, pre, other, args, nref>>

JoinNext == InnerJoin \/ LeftJoin \/ RightJoin \/ OuterJoin

JoinSpec == JoinInit /\ [][JoinNext]_vars

(***************************************************************************)
(* DataFrame::sort.  Ordering is -1 (Less), 0 (Equal), 1 (Greater).        *)
(***************************************************************************)
Less == -1

Equal == 0

Greater == 1

reverse(order) == 0 - order

\* partial_cmp of two integers.
partial_cmp(a, b) == IF a < b THEN Less ELSE IF a > b THEN Greater ELSE Equal

\* A row comparison that orders a missing value before a present one.
compare_row_missing_first(s, a_idx, b_idx) ==
    LET a == s.data[a_idx]
        b == s.data[b_idx]
    IN  IF a # None /\ b # None THEN partial_cmp(a[1], b[1])
        ELSE IF a # None /\ b = None THEN Greater
        ELSE IF a = None /\ b # None THEN Less
        ELSE Equal

\* SeriesTrait::compare_row for rows within the column: a missing value orders
\* after a present one.
compare_row(s, a_idx, b_idx) ==
    LET a == s.data[a_idx]
        b == s.data[b_idx]
    IN  IF a # None /\ b # None THEN partial_cmp(a[1], b[1])
        ELSE IF a # None /\ b = None THEN Less
        ELSE IF a = None /\ b # None THEN Greater
        ELSE Equal

\* The closure given to sort_unstable_by: the first key that tells the rows apart.
RECURSIVE sort_compare(_, _, _, _, _)
sort_compare(key_columns, descending, i, a_idx, b_idx) ==
    IF i > Len(key_columns) THEN Equal
    ELSE LET order == compare_row(key_columns[i], a_idx, b_idx)
             current_order == IF descending[i] THEN reverse(order) ELSE order
         IN  IF current_order # Equal THEN current_order
             ELSE sort_compare(key_columns, descending, i + 1, a_idx, b_idx)

IndexPermutations(n) ==
    {p \in [1..n -> 1..n] : \A a, b \in 1..n : a # b => p[a] # p[b]}

\* slice::sort_unstable_by: the slice ends ordered by the comparator, and the order
\* of elements that compare Equal is unspecified: every ordered permutation is a
\* possible outcome.
sort_unstable_by(n, key_columns, descending) ==
    {p \in IndexPermutations(n) :
        \A a, b \in 1..n :
            a < b => sort_compare(key_columns, descending, 1, p[a], p[b]) # Greater}

\* The first key that names no column or a List column: its error, Ok if none.
sort_key_error(d, by) ==
    LET bad == {i \in 1..Len(by) :
                    \/ column(d, by[i]) = 0
                    \/ d.columns[column(d, by[i])].dtype = "List"}
    IN  IF bad = {} THEN Ok
        ELSE LET i == CHOOSE k \in bad : \A m \in bad : k <= m
             IN  IF column(d, by[i]) = 0 THEN ColumnNotFound(by[i])
                 ELSE UnsupportedOperation(by[i])

\* The results sort can return.
sort(d, by, descending) ==
    IF Len(by) = 0 THEN {[res |-> Ok, df |-> d]}
    ELSE IF Len(by) # Len(descending) THEN {ErrOut(InvalidArgument)}
    ELSE IF sort_key_error(d, by) # Ok THEN {ErrOut(sort_key_error(d, by))}
    ELSE LET sort_key_columns == [i \in 1..Len(by) |-> d.columns[column(d, by[i])]]
         IN  {LET sorted == [c \in 1..Len(d.columns) |-> take_indices(d.columns[c], indices)]
              IN  IF FirstError(sorted) # Ok THEN ErrOut(FirstError(sorted))
                  ELSE new([c \in 1..Len(sorted) |-> sorted[c].series])
              : indices \in sort_unstable_by(d.height, sort_key_columns, descending)}

(***************************************************************************)
(* The sort's inputs and action: a table of two integer columns, with or   *)
(* without a list column, and the keys and direction flags.                *)
(***************************************************************************)
ValuePool == {None, Some(1), Some(2)}

\* Key lists: none, one or two keys, a repeated key, a list column, a name no
\* column has.
ByPool ==
    { <<>>, <<"a">>, <<"b">>, <<"a", "b">>, <<"b", "a">>, <<"a", "a">>,
      <<"l">>, <<"a", "l">>, <<"q">>, <<"q", "l">> }

\* Direction flags: every list of flags as long as some key list.
DescendingPool == UNION {[1..n -> BOOLEAN] : n \in {Len(by) : by \in ByPool}}

SortInit ==
    /\ \E a \in SeqsUpTo(ValuePool, MaxLen), b \in SeqsUpTo(ValuePool, MaxLen),
          with_list \in BOOLEAN :
         /\ Len(a) = Len(b)
         /\ df = new(<<Series("a", "Int32", a), Series("b", "Int32", b)>>
                     \o IF with_list
                        THEN <<Series("l", "List", [r \in 1..Len(a) |-> None])>>
                        ELSE <<>>).df
    /\ \E by \in ByPool, descending \in DescendingPool :
         args = [NoArgs EXCEPT !.by = by, !.descending = descending]
    /\ pre = df
    /\ other = new_empty
    /\ out = new_empty
    /\ op = "init"
    /\ res = Ok
    /\ nref = 0

Sort ==
    /\ \E r \in sort(df, args.by, args.descending) :
         out' = r.df /\ res' = r.res
    /\ op' = "sort"
    /\ UNCHANGED <<df, pre, other, args, nref>>

SortNext == Sort

SortSpec == SortInit /\ [][SortNext]_vars

(***************************************************************************)
(* Properties of the table and its mutators.                               *)
(***************************************************************************)
ColumnNames(cols) == {cols[i].name : i \in 1..Len(cols)}

NamesDistinct(cols) ==
    \A i, j \in 1..Len(cols) : i # j => cols[i].name # cols[j].name

LengthsEqualHeight(d) == \A i \in 1..Len(d.columns) : len(d.columns[i]) = d.height

\* The first column whose length differs from the first column's; Len + 1 if none.
FirstDiffering(cols) ==
    LET bad == {k \in 1..Len(cols) : len(cols[k]) # len(cols[1])}
    IN  IF bad = {} THEN Len(cols) + 1
        ELSE CHOOSE k \in bad : \A m \in bad : k <= m

\* The first column that repeats the name of a column before it; Len + 1 if none.
FirstRepeated(cols) ==
    LET bad == {k \in 1..Len(cols) : \E i \in 1..(k - 1) : cols[i].name = cols[k].name}
    IN  IF bad = {} THEN Len(cols) + 1
        ELSE CHOOSE k \in bad : \A m \in bad : k <= m

Differing(cols) == FirstDiffering(cols) <= Len(cols)

Repeating(cols) == FirstRepeated(cols) <= Len(cols)

\* What new reports for columns that differ in length or repeat a name: the
\* defect of the first defective column, its length before its name.
NewReportsFirstDefect ==
    op = "new" /\ (Differing(args.columns) \/ Repeating(args.columns)) =>
        LET cols == args.columns
            k == FirstDiffering(cols)
            j == FirstRepeated(cols)
        IN  IF k <= j
            THEN res = MismatchedLengths(len(cols[1]), len(cols[k]), cols[k].name)
            ELSE res = DuplicateColumnName(cols[j].name)

\* C1 (as stated): every column's length equals the row count, and new given
\* columns of differing lengths always fails with MismatchedLengths naming the
\* offending column.
C1_Original ==
    /\ LengthsEqualHeight(df)
    /\ op = "new" /\ Differing(args.columns) =>
         /\ res.tag = "MismatchedLengths"
         /\ res.name = args.columns[FirstDiffering(args.columns)].name

\* C1 (amended): every column's length equals the row count after new and after
\* any sequence of add_column, drop_column and rename_column calls; new given
\* columns of differing lengths always fails, with MismatchedLengths naming the
\* first column whose length differs from the first column's, unless a column
\* before that one repeats an earlier name, and then with DuplicateColumnName.
C1_LengthsEqualHeight ==
    /\ LengthsEqualHeight(df)
    /\ op = "new" /\ Differing(args.columns) => res.tag # "Ok" /\ df = pre
    /\ NewReportsFirstDefect

\* C1 witness: new was given three columns of differing lengths and reported the
\* mismatch.
C1_Witness ==
    /\ op = "new"
    /\ Len(args.columns) = 3
    /\ Differing(args.columns)
    /\ res.tag = "MismatchedLengths"
    /\ res.name = args.columns[3].name

\* C2 (as stated): column names are pairwise distinct, and new with two columns
\* of one name, add_column with an existing name and rename_column to an existing
\* other name always fail with DuplicateColumnName.
C2_Original ==
    /\ NamesDistinct(df.columns)
    /\ op = "new" /\ Repeating(args.columns) => res.tag = "DuplicateColumnName"
    /\ op = "add_column" /\ args.columns[1].name \in ColumnNames(pre.columns) =>
         res.tag = "DuplicateColumnName"
    /\ (/\ op = "rename_column"
        /\ args.name # args.new_name
        /\ args.name \in ColumnNames(pre.columns)
        /\ args.new_name \in ColumnNames(pre.columns)) =>
         res.tag = "DuplicateColumnName"

\* C2 (amended): column names are pairwise distinct after new and after any
\* sequence of add_column, drop_column and rename_column calls; new with two
\* columns of one name, add_column with an existing name and rename_column of a
\* column to the name of another always fail, with DuplicateColumnName unless
\* a length check fails first (in new, a column up to and including the repeating
\* one differs in length from the first column; in add_column, the column's
\* length differs from the row count), and then with MismatchedLengths.
C2_NamesDistinct ==
    /\ NamesDistinct(df.columns)
    /\ op = "new" /\ Repeating(args.columns) => res.tag # "Ok" /\ df = pre
    /\ NewReportsFirstDefect
    /\ op = "add_column" /\ args.columns[1].name \in ColumnNames(pre.columns) =>
         /\ df = pre
         /\ res = IF len(args.columns[1]) = pre.height
                  THEN DuplicateColumnName(args.columns[1].name)
                  ELSE MismatchedLengths(pre.height, len(args.columns[1]),
                                         args.columns[1].name)
    /\ (/\ op = "rename_column"
        /\ args.name # args.new_name
        /\ args.name \in ColumnNames(pre.columns)
        /\ args.new_name \in ColumnNames(pre.columns)) =>
         res = DuplicateColumnName(args.new_name) /\ df = pre

\* C2 witness: rename_column of a column to the name of another column was
\* refused with DuplicateColumnName.
C2_Witness ==
    /\ op = "rename_column"
    /\ args.name # args.new_name
    /\ {args.name, args.new_name} \subseteq ColumnNames(pre.columns)
    /\ res = DuplicateColumnName(args.new_name)

\* C3 (as stated): the schema map is exactly the name-to-kind projection of the
\* column list: one entry per column, keyed by the column's current name and
\* holding its kind, and no other entry.
C3_SchemaIsProjection ==
    /\ DOMAIN df.schema = ColumnNames(df.columns)
    /\ Cardinality(DOMAIN df.schema) = Len(df.columns)
    /\ \A i \in 1..Len(df.columns) : df.schema[df.columns[i].name] = df.columns[i].dtype

\* C4 (as stated): when add_column, drop_column or rename_column returns an
\* error, the receiver is exactly as it was before the call.
C4_FailedCallLeavesReceiver ==
    op \in {"add_column", "drop_column", "rename_column"} /\ res.tag # "Ok" => df = pre

(***************************************************************************)
(* Properties of the joins.  A join that returns a table is one whose      *)
(* result is Ok; the properties of its rows are about those calls.         *)
(***************************************************************************)
Joined(name) == op = name /\ res = Ok

LeftKeys == df.columns[column(df, args.left_on)].data

RightKeys == other.columns[column(other, args.right_on)].data

\* The pairs (left row, right row) whose key values are equal.
Matches == {p \in (1..Len(LeftKeys)) \X (1..Len(RightKeys)) : LeftKeys[p[1]] = RightKeys[p[2]]}

UnmatchedLeft == {i \in 1..Len(LeftKeys) : \A j \in 1..Len(RightKeys) : LeftKeys[i] # RightKeys[j]}

UnmatchedRight == {j \in 1..Len(RightKeys) : \A i \in 1..Len(LeftKeys) : LeftKeys[i] # RightKeys[j]}

PairLess(p, q) == p[1] < q[1] \/ (p[1] = q[1] /\ p[2] < q[2])

\* The pairs of a set in ascending order of left index, then right index.
Ascending(S) ==
    [n \in 1..Cardinality(S) |->
        CHOOSE p \in S : Cardinality({q \in S : PairLess(q, p)}) = n - 1]

\* An index of 0 stands for no row.
Opt(k) == IF k = 0 THEN None ELSE Some(k)

Entry(col, k) == IF k = 0 THEN None ELSE col.data[k]

\* The result table has one row per pair, in order: the left table's columns
\* hold the left row's values, then the right table's columns other than its
\* key hold the right row's values, a side without a row holding missing values.
RowsAre(pairs) ==
    LET lc == df.columns
        rc == SelectSeq(other.columns, LAMBDA c : c.name # args.right_on)
    IN  /\ out.height = Len(pairs)
        /\ Len(out.columns) = Len(lc) + Len(rc)
        /\ \A a \in 1..Len(lc) :
             out.columns[a].data = [n \in 1..Len(pairs) |-> Entry(lc[a], pairs[n][1])]
        /\ \A b \in 1..Len(rc) :
             out.columns[Len(lc) + b].data = [n \in 1..Len(pairs) |-> Entry(rc[b], pairs[n][2])]

LeftJoinPairs == Ascending(Matches \cup {<<i, 0>> : i \in UnmatchedLeft})

OuterJoinPairs == LeftJoinPairs \o Ascending({<<0, j>> : j \in UnmatchedRight})

\* C6: inner_join's rows are exactly the pairs (left row i, right row j) with
\* equal keys, one row each, ordered by left row and then by ascending right
\* row; an unmatched row of either side is in no output row.
C6_InnerJoinRows ==
    Joined("inner_join") =>
        /\ RowsAre(Ascending(Matches))
        /\ out.height = Cardinality(Matches)

\* C6 witness: an inner join with a left row matching two right rows and a left
\* row matching none.
C6_Witness ==
    /\ Joined("inner_join")
    /\ UnmatchedLeft # {}
    /\ \E p, q \in Matches : p[1] = q[1] /\ p[2] < q[2]
    /\ Len(out.columns) >= 3

\* C7: left_join's rows are the matched pairs of inner_join plus exactly one row
\* for every left row without a match, which carries the left row's values and a
\* missing value in every column of the right table; every left row is present.
C7_LeftJoinRows ==
    Joined("left_join") =>
        /\ RowsAre(LeftJoinPairs)
        /\ out.height = Cardinality(Matches) + Cardinality(UnmatchedLeft)
        /\ SelectSeq(LeftJoinPairs, LAMBDA p : p[2] # 0) = Ascending(Matches)
        /\ \A i \in 1..Len(LeftKeys) : \E n \in 1..Len(LeftJoinPairs) : LeftJoinPairs[n][1] = i

\* C7 witness: a left join with a matched and an unmatched left row, and a right
\* column in the result.
C7_Witness ==
    /\ Joined("left_join")
    /\ UnmatchedLeft # {}
    /\ Matches # {}
    /\ Len(out.columns) > Len(df.columns)
    /\ \E n \in 1..out.height : out.columns[Len(out.columns)].data[n] = None

\* C8: outer_join's rows are left_join's rows followed by exactly one row, with
\* a missing value in every left column, for each right row no left row matched,
\* in ascending right order; every left and every right row is in some row.
C8_OuterJoinRows ==
    Joined("outer_join") =>
        /\ RowsAre(OuterJoinPairs)
        /\ out.height = Len(LeftJoinPairs) + Cardinality(UnmatchedRight)
        /\ \A i \in 1..Len(LeftKeys) : \E n \in 1..Len(OuterJoinPairs) : OuterJoinPairs[n][1] = i
        /\ \A j \in 1..Len(RightKeys) : \E n \in 1..Len(OuterJoinPairs) : OuterJoinPairs[n][2] = j

\* C8 witness: an outer join with a match, a left row without one and a right
\* row without one, the last result row being a right-only row.
C8_Witness ==
    /\ Joined("outer_join")
    /\ Matches # {}
    /\ UnmatchedLeft # {}
    /\ UnmatchedRight # {}
    /\ out.columns[1].data[out.height] = None

\* The largest number of rows of either side that share one key value (a missing
\* key counts as a key value).
MaxFanout ==
    LET count(keys, k) == Cardinality({i \in 1..Len(keys) : keys[i] = k})
        counts == {count(LeftKeys, k) : k \in KeyPool} \cup {count(RightKeys, k) : k \in KeyPool}
    IN  CHOOSE c \in counts : \A d \in counts : d <= c

Min(a, b) == IF a <= b THEN a ELSE b

Max(a, b) == IF a >= b THEN a ELSE b

\* C9: with l and r the heights of the two tables, inner_join's height is at most
\* min(l * maxfanout, r * maxfanout), left_join's at least l, right_join's at
\* least r and outer_join's at least max(l, r).
C9_JoinHeights ==
    /\ Joined("inner_join") =>
         out.height <= Min(df.height * MaxFanout, other.height * MaxFanout)
    /\ Joined("left_join") => out.height >= df.height
    /\ Joined("right_join") => out.height >= other.height
    /\ Joined("outer_join") => out.height >= Max(df.height, other.height)

\* C9 witness: a right join of two non-empty tables, taller than the right table.
C9_Witness ==
    /\ Joined("right_join")
    /\ df.height > 0
    /\ out.height > other.height
    /\ UnmatchedRight # {}

\* C10 (as stated): a join of two valid tables with text key columns returns a
\* table, whose column names are pairwise distinct and of whose columns exactly
\* one is a key column (the only text column of either input).
C10_JoinNamesDistinct ==
    (/\ op \in {"inner_join", "left_join", "right_join", "outer_join"}
     /\ join_key(df, args.left_on, "left").res = Ok
     /\ join_key(other, args.right_on, "right").res = Ok) =>
        /\ res = Ok
        /\ NamesDistinct(out.columns)
        /\ Cardinality({n \in 1..Len(out.columns) : out.columns[n].dtype = "String"}) = 1

(***************************************************************************)
(* Properties of the sort.                                                 *)
(***************************************************************************)
SortKeyColumns == [i \in 1..Len(args.by) |-> df.columns[column(df, args.by[i])]]

\* Rows a and b compare equal on every sort key.
Tied(a, b) == sort_compare(SortKeyColumns, args.descending, 1, a, b) = Equal

\* The one ordered permutation that keeps tied rows in their input order.
StableOrder ==
    CHOOSE p \in IndexPermutations(df.height) :
        \A a, b \in 1..df.height :
            a < b =>
                LET c == sort_compare(SortKeyColumns, args.descending, 1, p[a], p[b])
                IN  c = Less \/ (c = Equal /\ p[a] < p[b])

\* C5 (as stated): sort is stable: the result is the input with its rows in key
\* order, rows that compare equal on every key being in their input order.
C5_SortStable ==
    op = "sort" /\ res = Ok /\ Len(args.by) > 0 =>
        \A c \in 1..Len(df.columns) :
            out.columns[c].data = [n \in 1..df.height |-> df.columns[c].data[StableOrder[n]]]

(***************************************************************************)
(* Group-by aggregation (src/src/dataframe/groupby.rs).  Int32 values keep *)
(* their width.  A float is a record [nan, v]: NaN, or the number v.  A    *)
(* GroupBy is a record [df, keys, groups], groups being a function from    *)
(* group keys to the row indices of the group, in row order.               *)
(***************************************************************************)
I32_MAX == 2147483647

I32_MIN == -2147483647 - 1

NaN == [nan |-> TRUE, v |-> 0]

Float(x) == [nan |-> FALSE, v |-> x]

is_nan(val) == val.nan

\* i32::saturating_add, computed without leaving the 32-bit range.
saturating_add(a, b) ==
    IF b > 0 /\ a > I32_MAX - b THEN I32_MAX
    ELSE IF b < 0 /\ a < I32_MIN - b THEN I32_MIN
    ELSE a + b

unwrap_or(opt, default) == IF opt = None THEN default ELSE opt[1]

\* GroupKeyValue::{Int, Str, Bool}: the variant is chosen by the column's kind tag.
GroupKeyValue(dtype, val) ==
    [kind |-> IF dtype = "Int32" THEN "Int" ELSE IF dtype = "String" THEN "Str" ELSE "Bool",
     val |-> val]

GroupBy(d, keys, groups) == [df |-> d, keys |-> keys, groups |-> groups]

NoGroups == [k \in {} |-> <<>>]

NoGroupBy == GroupBy(new_empty, <<>>, NoGroups)

GroupKeyKinds == {"Int32", "String", "Bool"}

\* The first loop of GroupBy::new: the first key that names no column, or a
\* column whose kind tag is not Int32, String or Bool; Ok if there is none.
group_key_error(d, keys) ==
    LET bad == {i \in 1..Len(keys) :
                    \/ column(d, keys[i]) = 0
                    \/ d.columns[column(d, keys[i])].dtype \notin GroupKeyKinds}
    IN  IF bad = {} THEN Ok
        ELSE LET i == CHOOSE k \in bad : \A m \in bad : k <= m
             IN  IF column(d, keys[i]) = 0 THEN ColumnNotFound(keys[i])
                 ELSE UnsupportedOperation(keys[i])

key_col(d, keys, i) == d.columns[column(d, keys[i])]

\* has_null after the inner loop: some key column has no value in the row.
has_null(d, keys, row_idx) ==
    \E i \in 1..Len(keys) : key_col(d, keys, i).data[row_idx] = None

current_key(d, keys, row_idx) ==
    [i \in 1..Len(keys) |->
        GroupKeyValue(key_col(d, keys, i).dtype, key_col(d, keys, i).data[row_idx][1])]

\* groups.entry(key).or_default().push(row_idx)
push_entry(groups, key, row_idx) ==
    [k \in (DOMAIN groups) \cup {key} |->
        IF k = key
        THEN (IF key \in DOMAIN groups THEN groups[key] ELSE <<>>) \o <<row_idx>>
        ELSE groups[k]]

\* A grouping that keeps only the last row of each group.
RECURSIVE group_rows_overwrite(_, _, _, _)
group_rows_overwrite(d, keys, row_idx, groups) ==
    IF row_idx > d.height THEN groups
    ELSE IF has_null(d, keys, row_idx)
    THEN group_rows_overwrite(d, keys, row_idx + 1, groups)
    ELSE group_rows_overwrite(d, keys, row_idx + 1,
             [k \in (DOMAIN groups) \cup {current_key(d, keys, row_idx)} |->
                 IF k = current_key(d, keys, row_idx) THEN <<row_idx>> ELSE groups[k]])

\* The row loop of GroupBy::new, from row row_idx on.
RECURSIVE group_rows(_, _, _, _)
group_rows(d, keys, row_idx, groups) ==
    IF row_idx > d.height THEN groups
    ELSE IF has_null(d, keys, row_idx)
    THEN group_rows(d, keys, row_idx + 1, groups)
    ELSE group_rows(d, keys, row_idx + 1,
                    push_entry(groups, current_key(d, keys, row_idx), row_idx))

\* DataFrame::groupby, which is GroupBy::new.
groupby(d, keys) ==
    IF group_key_error(d, keys) # Ok
    THEN [res |-> group_key_error(d, keys), gb |-> NoGroupBy]
    ELSE [res |-> Ok, gb |-> GroupBy(d, keys, group_rows(d, keys, 1, NoGroups))]

EmptySeriesKinds ==
    {"Int8", "Int16", "Int32", "Int64", "UInt8", "UInt16", "UInt32", "UInt64",
     "Float32", "Float64", "String", "Bool"}

create_empty_series_from_dtype(name, dtype) ==
    IF dtype \in EmptySeriesKinds
    THEN [res |-> Ok, series |-> Series(name, dtype, <<>>)]
    ELSE [res |-> UnsupportedOperation(name), series |-> Series(name, dtype, <<>>)]

\* The orders in which HashMap::iter can yield the groups: the map has no
\* defined iteration order.
GroupOrders(groups) ==
    {o \in [1..Cardinality(DOMAIN groups) -> DOMAIN groups] :
        \A a, b \in DOMAIN o : a # b => o[a] # o[b]}

\* The key columns of an aggregation's result, the groups taken in order o.
final_key_columns(gb, o) ==
    [i \in 1..Len(gb.keys) |->
        new_from_options(gb.keys[i], key_col(gb.df, gb.keys, i).dtype,
                         [r \in 1..Len(o) |-> Some(o[r][i].val)])]

empty_key_columns(gb) ==
    [i \in 1..Len(gb.keys) |->
        create_empty_series_from_dtype(gb.keys[i], key_col(gb.df, gb.keys, i).dtype)]

\* The results GroupBy::count can return.
count(gb) ==
    IF DOMAIN gb.groups = {}
    THEN {IF FirstError(empty_key_columns(gb)) # Ok
          THEN ErrOut(FirstError(empty_key_columns(gb)))
          ELSE new([i \in 1..Len(gb.keys) |-> empty_key_columns(gb)[i].series]
                   \o <<Series("count", "UInt32", <<>>)>>)}
    ELSE {new(final_key_columns(gb, o)
              \o <<Series("count", "UInt32",
                          [r \in 1..Len(o) |-> Some(Len(gb.groups[o[r]]))])>>)
          : o \in GroupOrders(gb.groups)}

SumKinds == {"Int32", "UInt32", "Float32", "Float64"}

\* The columns sum aggregates, in table order: not a key, and of a summable kind.
is_value_col(gb, col) ==
    /\ \A i \in 1..Len(gb.keys) : gb.keys[i] # col.name
    /\ col.dtype \in SumKinds

value_col_names(gb) == SelectSeq(gb.df.columns, LAMBDA col : is_value_col(gb, col))

\* The integer branch of sum's inner loop, from member i of the group on.
RECURSIVE sum_int(_, _, _, _)
sum_int(data, indices, i, current_sum) ==
    IF i > Len(indices) THEN current_sum
    ELSE IF data[indices[i]] = None THEN sum_int(data, indices, i + 1, current_sum)
    ELSE sum_int(data, indices, i + 1,
                 Some(saturating_add(unwrap_or(current_sum, 0), data[indices[i]][1])))

\* The float branch: a NaN entry is skipped before the sum is touched.
RECURSIVE sum_float(_, _, _, _)
sum_float(data, indices, i, current_sum) ==
    IF i > Len(indices) THEN current_sum
    ELSE IF data[indices[i]] = None THEN sum_float(data, indices, i + 1, current_sum)
    ELSE IF is_nan(data[indices[i]][1]) THEN sum_float(data, indices, i + 1, current_sum)
    ELSE sum_float(data, indices, i + 1,
                   Some(Float(unwrap_or(current_sum, Float(0)).v + data[indices[i]][1].v)))

group_sum(col, indices) ==
    IF col.dtype \in {"Int32", "UInt32"}
    THEN sum_int(col.data, indices, 1, None)
    ELSE sum_float(col.data, indices, 1, None)

\* The results GroupBy::sum can return.
sum(gb) ==
    LET values == value_col_names(gb) IN
    IF DOMAIN gb.groups = {}
    THEN {LET empties == empty_key_columns(gb)
                         \o [j \in 1..Len(values) |->
                                create_empty_series_from_dtype(values[j].name, values[j].dtype)]
          IN  IF FirstError(empties) # Ok THEN ErrOut(FirstError(empties))
              ELSE new([i \in 1..Len(empties) |-> empties[i].series])}
    ELSE {new(final_key_columns(gb, o)
              \o [j \in 1..Len(values) |->
                     new_from_options(values[j].name, values[j].dtype,
                         [r \in 1..Len(o) |-> group_sum(values[j], gb.groups[o[r]])])])
          : o \in GroupOrders(gb.groups)}

(***************************************************************************)
(* The group-by inputs and actions.  The variable other holds the GroupBy  *)
(* built from df, which borrows df and so cannot outlive or see a change   *)
(* of it.                                                                  *)
(***************************************************************************)
GroupKeyPool == {None, Some(1), Some(2)}

\* The one present value a second column of the kind holds.
KindValue(dtype) ==
    IF dtype = "String" THEN "x"
    ELSE IF dtype = "Bool" THEN TRUE
    ELSE IF dtype = "Float64" THEN NaN
    ELSE 7

\* The values a summed column of the kind holds.
SumValuePool(dtype) ==
    IF dtype = "Float64" THEN {None, Some(NaN), Some(Float(1))}
    ELSE {None, Some(I32_MAX), Some(I32_MIN)}

\* Second columns: a key of each supported kind, keys of unsupported kinds,
\* and a key whose name is the name of count's result column.
KeyLayouts ==
    {Col("t", "String"), Col("t", "Bool"), Col("t", "Int64"), Col("t", "Float64"),
     Col("count", "Bool")}

ValueLayouts == {Col("x", "Int32"), Col("x", "Float64"), Col("x", "Int64")}

ValueTables(c) ==
    {new(<<Series("g", "Int32", [r \in 1..Len(x) |-> g[r]]), Series(c.name, c.dtype, x)>>).df
        : g \in [1..MaxLen -> GroupKeyPool], x \in SeqsUpTo(SumValuePool(c.dtype), MaxLen)}

GroupTables ==
    {new(<<Series("g", "Int32", g),
           Series(c.name, c.dtype,
                  [r \in 1..Len(g) |-> IF present[r] THEN Some(KindValue(c.dtype)) ELSE None])>>).df
        : g \in SeqsUpTo(GroupKeyPool, MaxLen), c \in KeyLayouts, present \in [1..MaxLen -> BOOLEAN]}
    \cup
    UNION {ValueTables(c) : c \in ValueLayouts}
    \cup
    {new(<<Series("g", "Int32", [r \in 1..Len(x) |-> g[r]]),
           Series("t", "String",
                  [r \in 1..Len(x) |-> IF present[r] THEN Some("x") ELSE None]),
           Series("x", "Int32", x)>>).df
        : g \in [1..MaxLen -> GroupKeyPool], present \in [1..MaxLen -> BOOLEAN],
          x \in SeqsUpTo(SumValuePool("Int32"), MaxLen)}

GroupKeysPool == {<<>>, <<"g">>, <<"t">>, <<"g", "t">>, <<"count">>, <<"x">>}

GroupInit ==
    /\ df \in GroupTables
    /\ \E keys \in GroupKeysPool : args = [keys |-> keys]
    /\ pre = df
    /\ other = NoGroupBy
    /\ out = new_empty
    /\ op = "init"
    /\ res = Ok
    /\ nref = 0

Groupby ==
    /\ op = "init"
    /\ LET r == groupby(df, args.keys)
       IN  other' = r.gb /\ res' = r.res
    /\ op' = "groupby"
    /\ UNCHANGED <<df, pre, args, out, nref>>

\* An aggregation needs the GroupBy that groupby returned.
Grouped == op # "init" /\ other # NoGroupBy

Count ==
    /\ Grouped
    /\ \E r \in count(other) : out' = r.df /\ res' = r.res
    /\ op' = "count"
    /\ UNCHANGED <<df, pre, other, args, nref>>

Sum ==
    /\ Grouped
    /\ \E r \in sum(other) : out' = r.df /\ res' = r.res
    /\ op' = "sum"
    /\ UNCHANGED <<df, pre, other, args, nref>>

GroupNext == Groupby \/ Count \/ Sum

GroupSpec == GroupInit /\ [][GroupNext]_vars

(***************************************************************************)
(* Properties of the group-by aggregations.                                *)
(***************************************************************************)
GroupKeyColumns == [i \in 1..Len(args.keys) |-> df.columns[column(df, args.keys[i])]]

\* The source rows that have a value in every key column.
CompleteRows ==
    {r \in 1..df.height : \A i \in 1..Len(args.keys) : GroupKeyColumns[i].data[r] # None}

RowKey(r) == [i \in 1..Len(args.keys) |-> GroupKeyColumns[i].data[r]]

OutKey(n) == [i \in 1..Len(args.keys) |-> out.columns[i].data[n]]

\* The source rows counted in output row n.
Members(n) == {r \in CompleteRows : RowKey(r) = OutKey(n)}

RECURSIVE SumOfCounts(_, _)
SumOfCounts(counts, n) == IF n = 0 THEN 0 ELSE counts[n][1] + SumOfCounts(counts, n - 1)

\* C11: when count returns a table, its counts add up to the number of source
\* rows that have a value in every key column; each such row is counted in
\* exactly one output row, the one that carries its key, and a row with a
\* missing key value is counted in none.
C11_CountCoverage ==
    op = "count" /\ res = Ok =>
        LET counts == out.columns[Len(args.keys) + 1].data IN
        /\ SumOfCounts(counts, Len(counts)) = Cardinality(CompleteRows)
        /\ \A r \in CompleteRows :
               Cardinality({n \in 1..out.height : OutKey(n) = RowKey(r)}) = 1
        /\ \A n \in 1..out.height : counts[n] = Some(Cardinality(Members(n)))

\* count has returned a table for a source in which one row has a missing key
\* value and another row has none.
C11_Witness ==
    /\ op = "count" /\ res = Ok
    /\ Len(args.keys) > 0
    /\ CompleteRows # {}
    /\ CompleteRows # 1..df.height

\* The values the members of output row n have in a column, in row order.
RECURSIVE MemberValues(_, _, _)
MemberValues(col, n, r) ==
    IF r > df.height THEN <<>>
    ELSE (IF r \in Members(n) THEN <<col.data[r]>> ELSE <<>>) \o MemberValues(col, n, r + 1)

\* The sum of the present values of a sequence of entries, from the left:
\* integers saturating at the bounds of i32, floats leaving NaN entries out.
RECURSIVE SumPresent(_, _, _, _)
SumPresent(dtype, values, i, acc) ==
    IF i > Len(values) THEN acc
    ELSE IF values[i] = None THEN SumPresent(dtype, values, i + 1, acc)
    ELSE IF dtype = "Int32"
    THEN SumPresent(dtype, values, i + 1,
                    IF values[i][1] > 0 /\ acc > I32_MAX - values[i][1] THEN I32_MAX
                    ELSE IF values[i][1] < 0 /\ acc < I32_MIN - values[i][1] THEN I32_MIN
                    ELSE acc + values[i][1])
    ELSE IF values[i][1].nan THEN SumPresent(dtype, values, i + 1, acc)
    ELSE SumPresent(dtype, values, i + 1, Float(acc.v + values[i][1].v))

\* The columns of the source that sum aggregates, in table order.
SummedColumns ==
    SelectSeq(df.columns,
              LAMBDA col : /\ \A i \in 1..Len(args.keys) : args.keys[i] # col.name
                           /\ col.dtype \in {"Int32", "UInt32", "Float32", "Float64"})

AllMissing(values) == \A i \in 1..Len(values) : values[i] = None

\* C12 (as stated): in sum's result a group's entry for a summed column is
\* missing only if every member value is missing; otherwise it is the sum of
\* the present values in row order, integers saturating, NaN entries skipped.
C12_SumOfPresentValues ==
    op = "sum" /\ res = Ok =>
        \A j \in 1..Len(SummedColumns), n \in 1..out.height :
            LET values == MemberValues(SummedColumns[j], n, 1)
                zero == IF SummedColumns[j].dtype = "Int32" THEN 0 ELSE Float(0)
            IN  out.columns[Len(args.keys) + j].data[n] =
                    IF AllMissing(values) THEN None
                    ELSE Some(SumPresent(SummedColumns[j].dtype, values, 1, zero))

IntegerKinds == {"Int8", "Int16", "Int32", "Int64", "UInt8", "UInt16", "UInt32", "UInt64"}

\* C13 (as stated): groupby over existing key columns builds a GroupBy when
\* every key column's kind is an integer kind, text or boolean, and otherwise
\* returns UnsupportedOperation for the first key column of another kind.
C13_GroupKeyKinds ==
    (op = "groupby" /\ \A i \in 1..Len(args.keys) : column(df, args.keys[i]) # 0) =>
        LET bad == {i \in 1..Len(args.keys) :
                       GroupKeyColumns[i].dtype \notin IntegerKinds \cup {"String", "Bool"}}
        IN  IF bad = {}
            THEN res = Ok /\ other.df = df /\ other.keys = args.keys
            ELSE res = UnsupportedOperation(args.keys[CHOOSE i \in bad : \A m \in bad : i <= m])

(***************************************************************************)
(* Elementwise arithmetic and comparison of Int32 columns                  *)
(* (src/src/series/core.rs).  In this part df is the left column, other    *)
(* the right column and out the column returned.  An operation on two      *)
(* elements gives a record [fault, v]: the value v, or a panic.            *)
(***************************************************************************)
Panic == [tag |-> "Panic", name |-> "", expected |-> 0, found |-> 0]

Value(v) == [fault |-> FALSE, v |-> v]

Fault == [fault |-> TRUE, v |-> 0]

\* i32 + i32 left to wrap around.
wrapping_add(a, b) ==
    IF b > 0 /\ a > I32_MAX - b THEN ((a - I32_MAX) - 1) + ((b - I32_MAX) - 1)
    ELSE IF b < 0 /\ a < I32_MIN - b THEN (a - I32_MIN) + (b - I32_MIN)
    ELSE a + b

add_overflows(a, b) == (b > 0 /\ a > I32_MAX - b) \/ (b < 0 /\ a < I32_MIN - b)

wrapping_sub(a, b) ==
    IF b < 0 /\ a > I32_MAX + b THEN ((a - I32_MAX) - 1) - (b - I32_MIN)
    ELSE IF b > 0 /\ a < I32_MIN + b THEN (a - I32_MIN) - ((b - I32_MAX) - 1)
    ELSE a - b

sub_overflows(a, b) == (b < 0 /\ a > I32_MAX + b) \/ (b > 0 /\ a < I32_MIN + b)

Abs(a) == IF a < 0 THEN 0 - a ELSE a

\* Whether the product of a and b lies outside the range of i32.
mul_overflows(a, b) ==
    IF a = 0 \/ b = 0 THEN FALSE
    ELSE IF a = I32_MIN THEN b # 1
    ELSE IF b = I32_MIN THEN a # 1
    ELSE IF (a > 0) = (b > 0) THEN Abs(a) > I32_MAX \div Abs(b)
    ELSE Abs(a) - (IF I32_MAX % Abs(b) = Abs(b) - 1 THEN 1 ELSE 0) > I32_MAX \div Abs(b)

\* a * b modulo 2^32, by doubling, for b >= 0; the half product is bound as a
\* value so that it is computed once.
RECURSIVE wrapping_mul_nat(_, _)
wrapping_mul_nat(a, b) ==
    IF b = 0 THEN 0
    ELSE CHOOSE product \in
            {wrapping_add(wrapping_add(half, half), IF b % 2 = 1 THEN a ELSE 0)
                : half \in {wrapping_mul_nat(a, b \div 2)}} : TRUE

wrapping_mul(a, b) ==
    IF b >= 0 THEN wrapping_mul_nat(a, b)
    ELSE IF b = I32_MIN THEN (IF a % 2 = 0 THEN 0 ELSE I32_MIN)
    ELSE wrapping_sub(0, wrapping_mul_nat(a, 0 - b))

\* Division rounding toward zero, for b # 0 and (a, b) # (I32_MIN, -1).
trunc_div(a, b) ==
    IF b > 0 THEN (IF a >= 0 THEN a \div b ELSE (a + (b - 1)) \div b)
    ELSE IF b = I32_MIN THEN (IF a = I32_MIN THEN 1 ELSE 0)
    ELSE 0 - (IF a >= 0 THEN a \div (0 - b) ELSE (a + ((0 - b) - 1)) \div (0 - b))

ArithMethods == {"add", "sub", "mul", "div", "rem"}

CompareMethods == {"gt", "lt", "eq", "neq", "gte", "lte"}

\* The std::ops method on two i32 values.  Overflow of + - * panics in a build
\* with overflow checks and wraps in one without; a zero divisor, and
\* I32_MIN divided by -1, panic in every build.
op_method(method, left, right, overflow_checks) ==
    IF method = "add"
    THEN (IF add_overflows(left, right) /\ overflow_checks THEN Fault
          ELSE Value(wrapping_add(left, right)))
    ELSE IF method = "sub"
    THEN (IF sub_overflows(left, right) /\ overflow_checks THEN Fault
          ELSE Value(wrapping_sub(left, right)))
    ELSE IF method = "mul"
    THEN (IF mul_overflows(left, right) /\ overflow_checks THEN Fault
          ELSE Value(wrapping_mul(left, right)))
    ELSE IF right = 0 \/ (left = I32_MIN /\ right = 0 - 1) THEN Fault
    ELSE IF method = "div" THEN Value(trunc_div(left, right))
    ELSE Value(left - trunc_div(left, right) * right)

\* The comparison operator on two i32 values.
compare_op(method, left_val, right_val) ==
    IF method = "gt" THEN left_val > right_val
    ELSE IF method = "lt" THEN left_val < right_val
    ELSE IF method = "eq" THEN left_val = right_val
    ELSE IF method = "neq" THEN left_val # right_val
    ELSE IF method = "gte" THEN left_val >= right_val
    ELSE left_val <= right_val

NoSeries == Series("", "Null", <<>>)

SeriesErr(e) == [res |-> e, series |-> NoSeries]

\* The outcome of collecting per-position outcomes: a panic if any position
\* panicked, else the column of the values.
collect(name, dtype, cells) ==
    IF \E i \in 1..Len(cells) : cells[i] # None /\ cells[i][1].fault
    THEN SeriesErr(Panic)
    ELSE [res |-> Ok,
          series |-> new_from_options(name, dtype,
                        [i \in 1..Len(cells) |->
                            IF cells[i] = None THEN None ELSE Some(cells[i][1].v)])]

\* impl_arith_series: add_series, sub_series, mul_series, div_series, rem_series.
arith_series(self, rhs, method, overflow_checks) ==
    IF len(self) # len(rhs)
    THEN SeriesErr(MismatchedLengths(len(self), len(rhs), rhs.name))
    ELSE collect(self.name \o "_" \o method \o "_series_" \o rhs.name, self.dtype,
                 [i \in 1..len(self) |->
                     IF self.data[i] # None /\ rhs.data[i] # None
                     THEN Some(op_method(method, self.data[i][1], rhs.data[i][1],
                                         overflow_checks))
                     ELSE None])

\* A comparison that takes a missing operand as not satisfying the relation.
compare_series_missing_as_false(self, rhs, method) ==
    IF len(self) # len(rhs)
    THEN SeriesErr(MismatchedLengths(len(self), len(rhs), rhs.name))
    ELSE [res |-> Ok,
          series |-> new_from_options(self.name \o "_" \o method \o "_series", "Bool",
                        [i \in 1..len(self) |->
                            IF self.data[i] # None /\ rhs.data[i] # None
                            THEN Some(compare_op(method, self.data[i][1], rhs.data[i][1]))
                            ELSE Some(FALSE)])]

\* impl_compare_series: gt_series, lt_series, eq_series, neq_series, gte_series, lte_series.
compare_series(self, rhs, method) ==
    IF len(self) # len(rhs)
    THEN SeriesErr(MismatchedLengths(len(self), len(rhs), rhs.name))
    ELSE [res |-> Ok,
          series |-> new_from_options(self.name \o "_" \o method \o "_series", "Bool",
                        [i \in 1..len(self) |->
                            IF self.data[i] # None /\ rhs.data[i] # None
                            THEN Some(compare_op(method, self.data[i][1], rhs.data[i][1]))
                            ELSE None])]

\* Series::binary_op with the closure of Add, Sub or Mul for &Series<T>.
binary_op(self, other_series, method, overflow_checks) ==
    IF len(self) # len(other_series) THEN SeriesErr(Panic)
    ELSE collect(self.name, self.dtype,
                 [i \in 1..len(self) |->
                     IF self.data[i] # None /\ other_series.data[i] # None
                     THEN Some(op_method(method, self.data[i][1], other_series.data[i][1],
                                         overflow_checks))
                     ELSE None])

\* Div<&Series<T>> and Rem<&Series<T>> for &Series<T>: a zero divisor entry
\* gives a missing entry.
div_rem(self, rhs, method) ==
    IF len(self) # len(rhs) THEN SeriesErr(Panic)
    ELSE collect(self.name, self.dtype,
                 [i \in 1..len(self) |->
                     IF self.data[i] # None /\ rhs.data[i] # None
                     THEN (IF rhs.data[i][1] = 0 THEN None
                           ELSE Some(op_method(method, self.data[i][1], rhs.data[i][1], TRUE)))
                     ELSE None])

\* The operator forms a + b, a - b, a * b, a / b, a % b on column references.
operator(self, rhs, method, overflow_checks) ==
    IF method \in {"div", "rem"} THEN div_rem(self, rhs, method)
    ELSE binary_op(self, rhs, method, overflow_checks)

\* Series::scalar_op
scalar_op(self, scalar, method) ==
    collect(self.name, self.dtype,
            [i \in 1..len(self) |->
                IF self.data[i] = None THEN None
                ELSE Some(op_method(method, self.data[i][1], scalar, TRUE))])

\* Div<T> and Rem<T> for &Series<T>.
div_rem_scalar(self, rhs, method) ==
    IF rhs = 0
    THEN [res |-> Ok,
          series |-> new_from_options(self.name, self.dtype, [i \in 1..len(self) |-> None])]
    ELSE scalar_op(self, rhs, method)

\* impl_arith_scalar, the ZeroCheck arm: div_scalar and rem_scalar.
arith_scalar(self, rhs, method) ==
    IF rhs = 0
    THEN [res |-> Ok,
          series |-> new_from_options(self.name \o "_" \o method \o "_scalar_by_zero",
                                      self.dtype, [i \in 1..len(self) |-> None])]
    ELSE collect(self.name \o "_" \o method \o "_scalar", self.dtype,
                 [i \in 1..len(self) |->
                     IF self.data[i] = None THEN None
                     ELSE Some(op_method(method, self.data[i][1], rhs, TRUE))])

(***************************************************************************)
(* The columns and scalars the arithmetic runs on, and one action per      *)
(* implementation.                                                         *)
(***************************************************************************)
LeftPool == {None, Some(0), Some(0 - 1), Some(I32_MIN)}

RightPool == {None, Some(0), Some(0 - 1)}

ScalarPool == {0, 0 - 1, 2}

ArithArgs(form, method, scalar, overflow_checks) ==
    [form |-> form, method |-> method, scalar |-> scalar, overflow_checks |-> overflow_checks]

ArithInit ==
    /\ \E a \in SeqsUpTo(LeftPool, MaxLen) : df = Series("a", "Int32", a)
    /\ \E b \in SeqsUpTo(RightPool, MaxLen) : other = Series("b", "Int32", b)
    /\ pre = df
    /\ args = ArithArgs("", "", 0, FALSE)
    /\ out = NoSeries
    /\ op = "init"
    /\ res = Ok
    /\ nref = 0

Returned(r, form, method, scalar, overflow_checks) ==
    /\ out' = r.series
    /\ res' = r.res
    /\ op' = form
    /\ args' = ArithArgs(form, method, scalar, overflow_checks)
    /\ UNCHANGED <<df, pre, other, nref>>

ArithSeries ==
    /\ op = "init"
    /\ \E method \in ArithMethods, overflow_checks \in BOOLEAN :
         Returned(arith_series(df, other, method, overflow_checks),
                  "arith_series", method, 0, overflow_checks)

CompareSeries ==
    /\ op = "init"
    /\ \E method \in CompareMethods :
         Returned(compare_series(df, other, method), "compare_series", method, 0, FALSE)

Operator ==
    /\ op = "init"
    /\ \E method \in ArithMethods, overflow_checks \in BOOLEAN :
         Returned(operator(df, other, method, overflow_checks),
                  "operator", method, 0, overflow_checks)

ArithScalar ==
    /\ op = "init"
    /\ \E method \in {"div", "rem"}, rhs \in ScalarPool :
         Returned(arith_scalar(df, rhs, method), "arith_scalar", method, rhs, FALSE)

OperatorScalar ==
    /\ op = "init"
    /\ \E method \in {"div", "rem"}, rhs \in ScalarPool :
         Returned(div_rem_scalar(df, rhs, method), "operator_scalar", method, rhs, FALSE)

ArithNext == ArithSeries \/ CompareSeries \/ Operator \/ ArithScalar \/ OperatorScalar

ArithSpec == ArithInit /\ [][ArithNext]_vars

(***************************************************************************)
(* Properties of the elementwise operations.                               *)
(***************************************************************************)
ColumnColumnForms == {"arith_series", "compare_series", "operator"}

MissingAt(i) == df.data[i] = None \/ other.data[i] = None

\* C14: a column-column operation on columns of equal length that returns a
\* column returns one of the operands' length, with a missing entry wherever
\* either operand's entry is missing; it returns no column only by panicking
\* in the arithmetic of a position where both entries are present.
C14_NullPropagation ==
    (op \in ColumnColumnForms /\ len(df) = len(other)) =>
        /\ res = Ok =>
              /\ len(out) = len(df)
              /\ \A i \in 1..len(df) : MissingAt(i) => out.data[i] = None
        /\ res # Ok =>
              /\ res = Panic
              /\ \E i \in 1..len(df) : ~MissingAt(i)

\* A column-column operation has returned a column for operands of which one
\* has a missing entry where the other has a value.
C14_Witness ==
    /\ op \in ColumnColumnForms
    /\ res = Ok
    /\ len(df) = len(other)
    /\ \E i \in 1..len(df) : df.data[i] = None /\ other.data[i] # None
    /\ \E i \in 1..len(out) : out.data[i] # None

(***************************************************************************)
(* Series::apply and Series::par_apply.  In this part df is the input      *)
(* column, args.func the function applied (a pure function of an entry),   *)
(* out the column returned, and other the parallel job: the result slot of *)
(* each position, the positions in the order the workers finished them,    *)
(* and the number of calls of func.                                        *)
(***************************************************************************)
EntryPool == {None, Some(1), Some(2)}

\* The pure functions Fn(Option<&T>) -> Option<U> over the entries.
FuncPool == [EntryPool -> EntryPool]

Job(slots, order, calls) == [slots |-> slots, order |-> order, calls |-> calls]

NoJob == Job(<<>>, <<>>, 0)

\* The positions no worker has finished.
Pending(job) == {i \in 1..Len(job.slots) : \A n \in 1..Len(job.order) : job.order[n] # i}

\* Series::new_empty
series_new_empty(name, dtype) == Series(name, dtype, <<>>)

\* Series::apply: func is called on every entry in order, and an empty input
\* gives an empty column of the output kind.
apply(self, func) ==
    LET new_data == [i \in 1..len(self) |-> func[self.data[i]]]
    IN  IF len(self) = 0
        THEN [series |-> series_new_empty(self.name, "Int32"), calls |-> Len(new_data)]
        ELSE [series |-> new_from_options(self.name, "Int32", new_data),
              calls |-> Len(new_data)]

\* A collection that takes the results in the order the workers produced them.
par_collect_completion_order(job) == [n \in 1..Len(job.order) |-> job.slots[job.order[n]]]

\* collect() of an indexed parallel iterator: each result goes to the
\* position of its input.
par_collect(job) == [i \in 1..Len(job.slots) |-> job.slots[i]]

ApplyInit ==
    /\ \E data \in SeqsUpTo(EntryPool, MaxLen) : df = Series("a", "Int32", data)
    /\ \E func \in FuncPool : args = [func |-> func]
    /\ pre = df
    /\ other = NoJob
    /\ out = NoSeries
    /\ op = "init"
    /\ res = Ok
    /\ nref = 0

Apply ==
    /\ op = "init"
    /\ LET r == apply(df, args.func)
       IN  out' = r.series /\ other' = Job(<<>>, <<>>, r.calls)
    /\ op' = "apply"
    /\ UNCHANGED <<df, pre, args, res, nref>>

\* par_apply is called: an empty input returns at once, any other input is
\* handed to the workers.
ParApply ==
    /\ op = "init"
    /\ IF len(df) = 0
       THEN /\ out' = series_new_empty(df.name, "Int32")
            /\ op' = "par_apply"
            /\ UNCHANGED other
       ELSE /\ other' = Job([i \in 1..len(df) |-> None], <<>>, 0)
            /\ op' = "par_iter"
            /\ UNCHANGED out
    /\ UNCHANGED <<df, pre, args, res, nref>>

\* A worker applies func to one entry no worker has taken yet.
Worker ==
    /\ op = "par_iter"
    /\ \E i \in Pending(other) :
         /\ other' = Job([other.slots EXCEPT ![i] = args.func[df.data[i]]],
                         Append(other.order, i), other.calls + 1)
    /\ UNCHANGED <<df, pre, args, op, res, out, nref>>

\* Every entry is done: the results are collected and par_apply returns.
Collect ==
    /\ op = "par_iter"
    /\ Pending(other) = {}
    /\ out' = new_from_options(df.name, "Int32", par_collect(other))
    /\ op' = "par_apply"
    /\ UNCHANGED <<df, pre, other, args, res, nref>>

ApplyNext == Apply \/ ParApply \/ Worker \/ Collect

ApplySpec == ApplyInit /\ [][ApplyNext]_vars

\* C15: whatever the order in which the workers take the entries, par_apply
\* returns the column apply returns: entry i is func of input entry i, the
\* length is the input's, and func is not called for an empty input.
C15_ParApplyIsApply ==
    op = "par_apply" =>
        /\ out = apply(df, args.func).series
        /\ len(out) = len(df)
        /\ \A i \in 1..len(df) : out.data[i] = args.func[df.data[i]]
        /\ other.calls = len(df)

\* par_apply has returned after the workers finished the entries in an order
\* other than the positional one, with results that differ between positions.
C15_Witness ==
    /\ op = "par_apply"
    /\ len(df) >= 2
    /\ other.order[1] > other.order[2]
    /\ out.data[1] # out.data[2]

(***************************************************************************)
(* Masked filters: Series::filter, SeriesTrait::filter, DataFrame::filter  *)
(* and DataFrame::par_filter.  In this part df is the table, args.mask the *)
(* mask column, out what the call returned and other the parallel job of   *)
(* par_filter, one slot per column.                                        *)
(***************************************************************************)
\* The entries of data whose mask entry is Some(true), from position i on, as
\* far as both data and mask reach (Iterator::zip stops with the shorter).
RECURSIVE zip_filter(_, _, _)
zip_filter(data, mask_data, i) ==
    IF i > Len(data) \/ i > Len(mask_data) THEN <<>>
    ELSE (IF mask_data[i] = Some(TRUE) THEN <<data[i]>> ELSE <<>>)
         \o zip_filter(data, mask_data, i + 1)

\* The typed Series::filter: a mask of another length panics.
series_filter(self, mask) ==
    IF len(self) # len(mask) THEN SeriesErr(Panic)
    ELSE [res |-> Ok, series |-> Series(self.name, self.dtype, zip_filter(self.data, mask.data, 1))]

\* The type-erased SeriesTrait::filter: no length check.
series_trait_filter(self, mask) ==
    [res |-> Ok,
     series |-> new_from_options(self.name, self.dtype, zip_filter(self.data, mask.data, 1))]

\* The table built from per-column results, or the first error among them.
from_results(results) ==
    IF FirstError(results) # Ok THEN ErrOut(FirstError(results))
    ELSE new([c \in 1..Len(results) |-> results[c].series])

\* DataFrame::filter; "mask" stands for the name the source gives the mask in
\* the error.
filter(d, mask) ==
    IF len(mask) # d.height
    THEN ErrOut(MismatchedLengths(d.height, len(mask), "mask"))
    ELSE from_results([c \in 1..Len(d.columns) |-> series_trait_filter(d.columns[c], mask)])

\* DataFrame::is_empty
is_empty(d) == d.height = 0 \/ Len(d.columns) = 0

\* What par_filter returns before it starts the per-column filters; tag
\* "Start" when it goes on to start them.
par_filter_early(d, mask) ==
    IF len(mask) # d.height
    THEN ErrOut(MismatchedLengths(d.height, len(mask), "mask"))
    ELSE IF is_empty(d) THEN [res |-> Ok, df |-> d]
    ELSE IF len(mask) = 0 /\ d.height > 0
    THEN ErrOut(MismatchedLengths(d.height, len(mask), "mask"))
    ELSE IF len(mask) = 0 /\ d.height = 0 THEN [res |-> Ok, df |-> d]
    ELSE [res |-> [Ok EXCEPT !.tag = "Start"], df |-> d]

(***************************************************************************)
(* The tables filtered: tables DataFrame::new returns, those tables after  *)
(* a rename through a column_mut reference, and the column-less table a    *)
(* rejected add_column leaves behind.                                      *)
(***************************************************************************)
MaskPool == {None, Some(TRUE), Some(FALSE)}

FilterColumns(h) ==
    <<Series("a", "Int32", [i \in 1..h |-> IF i = 1 THEN None ELSE Some(i)]),
      Series("b", "Int64", [i \in 1..h |-> Some(10 + i)])>>

NewTables ==
    {new(SubSeq(FilterColumns(h), 1, w)).df : h \in 0..MaxLen, w \in 0..2}

RenamedTables ==
    {rename_through(t, column_mut(t, name), new_name)
        : t \in NewTables, name \in {"a", "b"}, new_name \in {"a", "b"}}

AfterRejectedAdd ==
    LET t == rename_through(new(<<Series("a", "Int32", <<>>)>>).df, 1, "b")
    IN  {add_column(drop_column(t, "b").df, Series("a", "Int32", <<None>>)).df}

FilterTables == NewTables \cup RenamedTables \cup AfterRejectedAdd

FilterArgs(mask, index) == [mask |-> Series("mask", "Bool", mask), index |-> index]

FilterInit ==
    /\ df \in FilterTables
    /\ \E mask \in SeqsUpTo(MaskPool, MaxLen) : args = FilterArgs(mask, 0)
    /\ pre = df
    /\ other = NoJob
    /\ out = new_empty
    /\ op = "init"
    /\ res = Ok
    /\ nref = 0

\* The typed filter of one column of the table.
SeriesFilter ==
    /\ op = "init"
    /\ \E index \in 1..Len(df.columns) :
         /\ LET r == series_filter(df.columns[index], args.mask)
            IN  out' = r.series /\ res' = r.res
         /\ args' = [args EXCEPT !.index = index]
    /\ op' = "series_filter"
    /\ UNCHANGED <<df, pre, other, nref>>

\* The type-erased filter of one column of the table.
SeriesTraitFilter ==
    /\ op = "init"
    /\ \E index \in 1..Len(df.columns) :
         /\ LET r == series_trait_filter(df.columns[index], args.mask)
            IN  out' = r.series /\ res' = r.res
         /\ args' = [args EXCEPT !.index = index]
    /\ op' = "series_trait_filter"
    /\ UNCHANGED <<df, pre, other, nref>>

Filter ==
    /\ op = "init"
    /\ LET r == filter(df, args.mask)
       IN  out' = r.df /\ res' = r.res
    /\ op' = "filter"
    /\ UNCHANGED <<df, pre, other, args, nref>>

\* par_filter is called: it returns at once, or hands the columns to the workers.
ParFilter ==
    /\ op = "init"
    /\ LET early == par_filter_early(df, args.mask) IN
       IF early.res.tag = "Start"
       THEN /\ other' = Job([c \in 1..Len(df.columns) |-> SeriesErr(Ok)], <<>>, 0)
            /\ op' = "par_filter.par_iter"
            /\ UNCHANGED <<out, res>>
       ELSE /\ out' = early.df
            /\ res' = early.res
            /\ op' = "par_filter"
            /\ UNCHANGED other
    /\ UNCHANGED <<df, pre, args, nref>>

\* A worker filters one column no worker has taken yet.
FilterWorker ==
    /\ op = "par_filter.par_iter"
    /\ \E c \in Pending(other) :
         other' = Job([other.slots EXCEPT ![c] = series_trait_filter(df.columns[c], args.mask)],
                      Append(other.order, c), other.calls + 1)
    /\ UNCHANGED <<df, pre, args, op, res, out, nref>>

\* Every column is done: the results are collected in column order and the
\* table is built.
FilterCollect ==
    /\ op = "par_filter.par_iter"
    /\ Pending(other) = {}
    /\ LET r == from_results(par_collect(other))
       IN  out' = r.df /\ res' = r.res
    /\ op' = "par_filter"
    /\ UNCHANGED <<df, pre, other, args, nref>>

FilterNext ==
    SeriesFilter \/ SeriesTraitFilter \/ Filter \/ ParFilter \/ FilterWorker \/ FilterCollect

FilterSpec == FilterInit /\ [][FilterNext]_vars

(***************************************************************************)
(* Properties of the filters.                                              *)
(***************************************************************************)
\* C16 (as stated): par_filter returns what filter returns: the same error,
\* or a table with the same row count and the same columns (names, kinds and
\* values in order), in whatever order the per-column filters complete.
C16_ParFilterIsFilter ==
    op = "par_filter" =>
        /\ res = filter(df, args.mask).res
        /\ out.height = filter(df, args.mask).df.height
        /\ out.columns = filter(df, args.mask).df.columns

\* The rows the mask keeps, in order.
KeptRows == SelectSeq([i \in 1..len(args.mask) |-> i], LAMBDA i : args.mask.data[i] = Some(TRUE))

\* C17 (as stated): filter with a mask as long as the table returns the table
\* of the rows whose mask entry is Some(true), in their order, in every column;
\* a mask of another length is rejected with MismatchedLengths.
C17_FilterKeepsTrueRows ==
    op = "filter" =>
        IF len(args.mask) = df.height
        THEN /\ res = Ok
             /\ out.height = Len(KeptRows)
             /\ Len(out.columns) = Len(df.columns)
             /\ \A c \in 1..Len(df.columns) :
                    /\ out.columns[c].name = df.columns[c].name
                    /\ out.columns[c].dtype = df.columns[c].dtype
                    /\ out.columns[c].data = [n \in 1..Len(KeptRows) |-> df.columns[c].data[KeptRows[n]]]
        ELSE res = MismatchedLengths(df.height, len(args.mask), "mask")

\* C18 (as stated): a column-level filter whose mask differs in length from
\* the column panics, at the typed and at the type-erased entry point.
C18_ColumnFilterLengthFatal ==
    (op \in {"series_filter", "series_trait_filter"}
        /\ len(df.columns[args.index]) # len(args.mask)) => res = Panic

\* C19 (as stated): every column-column form applied to columns of different
\* lengths returns MismatchedLengths with the left length as expected and the
\* right length as found; none panics or returns a column.
C19_MismatchIsReturned ==
    (op \in ColumnColumnForms /\ len(df) # len(other)) =>
        res = MismatchedLengths(len(df), len(other), other.name)

ScalarForms == {"arith_scalar", "operator_scalar"}

\* The quotient or remainder of two integers, truncating toward zero.
Elementwise(method, a, b) ==
    IF method = "div" THEN trunc_div(a, b) ELSE a - b * trunc_div(a, b)

\* C20 (as stated): dividing a column by a scalar, or taking its remainder,
\* returns a column of the column's length: all entries missing when the scalar
\* is zero, and otherwise the elementwise quotient or remainder with the missing
\* entries kept.
C20_ScalarDivRem ==
    op \in ScalarForms =>
        /\ res = Ok
        /\ len(out) = len(df)
        /\ \A i \in 1..len(df) :
               IF args.scalar = 0 \/ df.data[i] = None THEN out.data[i] = None
               ELSE out.data[i] = Some(Elementwise(args.method, df.data[i][1], args.scalar))

\* A position where both entries are present and the divisor entry is zero.
ZeroDivisorAt(i) == df.data[i] # None /\ other.data[i] = Some(0)

\* C21 (as stated): a column-column divide or remainder of columns of equal
\* length panics whenever the divisor holds a zero at a position where both
\* entries are present, in the *_series methods and in the operator forms.
C21_ColumnZeroDivisorFatal ==
    (/\ op \in {"arith_series", "operator"}
     /\ args.method \in {"div", "rem"}
     /\ len(df) = len(other)
     /\ \E i \in 1..len(df) : ZeroDivisorAt(i)) => res = Panic

(***************************************************************************)
(* Properties of DataFrame::sort beyond stability.                         *)
(***************************************************************************)
\* Row r of table d, one entry per column.
Row(d, r) == [c \in 1..Len(d.columns) |-> d.columns[c].data[r]]

\* The entry of out's row r in the k-th sort key.
OutKeyAt(r, k) == out.columns[column(out, args.by[k])].data[r]

\* x comes strictly before y in ascending order: a missing value after any
\* present one.
Before(x, y) == x # None /\ (y = None \/ x[1] < y[1])

\* Rows r and s of out are in order: they agree on every key, or on the first
\* key where they differ r's entry comes first in that key's direction.
InOrder(r, s) ==
    LET differ == {k \in 1..Len(args.by) : OutKeyAt(r, k) # OutKeyAt(s, k)}
    IN  differ # {} =>
            LET k == CHOOSE m \in differ : \A n \in differ : m <= n
            IN  IF args.descending[k] THEN Before(OutKeyAt(s, k), OutKeyAt(r, k))
                ELSE Before(OutKeyAt(r, k), OutKeyAt(s, k))

DTYPE == "Int32"

\* DataTypeTrait::as_dtype of an i32 value.
as_dtype(v) == DTYPE

SeriesFlags(ascending, descending) ==
    [is_sorted_ascending |-> ascending, is_sorted_descending |-> descending]

\* SeriesFlags::default
flags_default == SeriesFlags(FALSE, FALSE)

set_sorted(flags, ascending, descending) == SeriesFlags(ascending, descending)

clear_sorted(flags) == SeriesFlags(FALSE, FALSE)

\* A Series with its flags.
Column(n, t, d, f) == [name |-> n, dtype |-> t, data |-> d, flags |-> f]

\* Series::default
series_default == Column("", "Null", <<>>, flags_default)

\* Series::new from a Vec<i32>: every value present, the tag from the data source.
series_new(name, values) ==
    Column(name, DTYPE, [i \in 1..Len(values) |-> Some(values[i])], flags_default)

\* Series::new_empty with its flags: the tag is the one the caller gives.
new_empty_with_flags(name, dtype) ==
    Column(name, series_new_empty(name, dtype).dtype, <<>>, flags_default)

\* Series::new_from_options with its flags.
new_from_options_with_flags(name, data) ==
    Column(name, new_from_options(name, DTYPE, data).dtype, data, flags_default)

\* Series::clear
clear(self) == [self EXCEPT !.data = <<>>, !.dtype = "Null", !.flags = flags_default]

\* A push that leaves the flags as they are.
push_keep_flags(self, value) ==
    [self EXCEPT !.dtype = IF self.dtype = "Null" /\ value # None THEN as_dtype(value[1]) ELSE @,
                 !.data = Append(@, value)]

\* Series::push
push(self, value) ==
    [self EXCEPT !.dtype = IF self.dtype = "Null" /\ value # None THEN as_dtype(value[1]) ELSE @,
                 !.flags = clear_sorted(@),
                 !.data = Append(@, value)]

\* The comparator of Series::sort: a missing value before any present one.
compare_options(a, b) ==
    IF a # None /\ b # None THEN partial_cmp(a[1], b[1])
    ELSE IF a = None /\ b = None THEN Equal
    ELSE IF a = None THEN Less
    ELSE Greater

\* slice::sort_by (rev: the reverse flag of Series::sort), a stable sort: entries that compare Equal keep their order.
sort_by(data, rev) ==
    LET cmp(x, y) == IF rev THEN compare_options(y, x) ELSE compare_options(x, y)
        p == CHOOSE q \in IndexPermutations(Len(data)) :
                 \A a, b \in 1..Len(data) :
                     a < b => \/ cmp(data[q[a]], data[q[b]]) = Less
                              \/ cmp(data[q[a]], data[q[b]]) = Equal /\ q[a] < q[b]
    IN  [i \in 1..Len(data) |-> data[p[i]]]

\* Series::sort
series_sort(self, rev) ==
    [self EXCEPT !.data = sort_by(@, rev),
                 !.flags = IF rev THEN set_sorted(@, FALSE, TRUE)
                           ELSE set_sorted(@, TRUE, FALSE)]

\* The tags a caller passes to new_empty.
TagPool == {"Int32", "String", "Null"}

ColumnNames2 == {"a", "b"}

ColumnInit ==
    /\ df = series_default
    /\ pre = series_default
    /\ other = new_empty
    /\ out = new_empty
    /\ op = "init"
    /\ args = NoArgs
    /\ res = Ok
    /\ nref = 0

Constructed(series, name) ==
    /\ op = "init"
    /\ df' = series
    /\ pre' = df
    /\ op' = name
    /\ UNCHANGED <<other, out, args, res, nref>>

Called(series, name) ==
    /\ op # "init"
    /\ df' = series
    /\ pre' = df
    /\ op' = name
    /\ UNCHANGED <<other, out, args, res, nref>>

SeriesNew ==
    \E name \in ColumnNames2, values \in SeqsUpTo({1, 2}, MaxLen) :
        Constructed(series_new(name, values), "new")

SeriesNewEmpty ==
    \E name \in ColumnNames2, dtype \in TagPool :
        Constructed(new_empty_with_flags(name, dtype), "new_empty")

SeriesNewFromOptions ==
    \E name \in ColumnNames2, data \in SeqsUpTo(ValuePool, MaxLen) :
        Constructed(new_from_options_with_flags(name, data), "new_from_options")

Push ==
    /\ len(df) < MaxLen
    /\ \E value \in ValuePool : Called(push(df, value), "push")

Clear == Called(clear(df), "clear")

Rename == \E name \in ColumnNames2 : Called(rename(df, name), "rename")

SeriesSort == \E rev \in BOOLEAN : Called(series_sort(df, rev), "sort")

ColumnNext ==
    SeriesNew \/ SeriesNewEmpty \/ SeriesNewFromOptions \/ Push \/ Clear \/ Rename \/ SeriesSort

ColumnSpec == ColumnInit /\ [][ColumnNext]_vars

(***************************************************************************)
(* Properties of the typed column.                                         *)
(***************************************************************************)
\* C23 (as stated): after its constructor and any sequence of push, clear,
\* rename and sort calls, a column's stored kind tag is the kind of its element
\* type.
C23_TagIsElementKind == op # "init" => df.dtype = DTYPE

\* The data is in ascending order, missing entries first.
IsAscending(data) ==
    \A i, j \in 1..Len(data) :
        i < j => data[i] = None \/ (data[j] # None /\ data[i][1] <= data[j][1])

\* The data is in descending order, missing entries last.
IsDescending(data) ==
    \A i, j \in 1..Len(data) :
        i < j => data[j] = None \/ (data[i] # None /\ data[i][1] >= data[j][1])

\* C24: push and clear leave both sortedness flags cleared, and after any
\* sequence of push, clear and sort calls a set ascending flag means the data is
\* in the order of sort(false), a set descending flag that of sort(true).
C24_FlagsMatchOrder ==
    op # "init" =>
        /\ op \in {"push", "clear"} => df.flags = SeriesFlags(FALSE, FALSE)
        /\ df.flags.is_sorted_ascending =>
               IsAscending(df.data) /\ df.data = series_sort(df, FALSE).data
        /\ df.flags.is_sorted_descending =>
               IsDescending(df.data) /\ df.data = series_sort(df, TRUE).data

\* A push onto a sorted column that leaves the data out of order.
C24_Witness ==
    /\ op = "push"
    /\ pre.flags.is_sorted_ascending
    /\ len(pre) > 0
    /\ ~IsAscending(df.data)
    /\ df.flags = SeriesFlags(FALSE, FALSE)

(***************************************************************************)
(* Further properties of the table's mutators.                             *)
(***************************************************************************)
\* C25: a table without columns has row count 0: dropping the last column
\* resets the row count, and add_column on a table without columns accepts a
\* column of any length and adopts its length as the row count.
C25_NoColumnsNoRows ==
    /\ Len(df.columns) = 0 => df.height = 0
    /\ (op = "drop_column" /\ res = Ok /\ Len(pre.columns) = 1) =>
           Len(df.columns) = 0 /\ df.height = 0
    /\ (op = "add_column" /\ Len(pre.columns) = 0) =>
           /\ res = Ok
           /\ df.columns = args.columns
           /\ df.height = len(args.columns[1])

\* The last column of a table with rows is dropped.
C25_Witness ==
    /\ op = "drop_column" /\ res = Ok
    /\ Len(pre.columns) = 1 /\ pre.height > 0
    /\ Len(df.columns) = 0 /\ df.height = 0

\* C26 (as stated): rename_column returns ColumnNotFound whenever old_name
\* names no column of the table, whatever new_name is.
C26_RenameUnknownColumn ==
    (op = "rename_column" /\ position(pre.columns, args.name) = 0) =>
        res = ColumnNotFound(args.name)

\* C27 (as stated): sort returns InvalidArgument, and no table, whenever the
\* number of keys differs from the number of direction flags.
C27_SortCountMismatch ==
    (op = "sort" /\ Len(args.by) # Len(args.descending)) => res = InvalidArgument

(***************************************************************************)
(* Table equality, impl PartialEq for DataFrame.  In this part df and      *)
(* other are the two tables, their columns carrying flags, and out is what *)
(* df == other returned.                                                   *)
(***************************************************************************)
\* Debug for Series<T>: the fields the formatted text holds.
debug_fmt(series) ==
    [name |-> series.name, dtype |-> series.dtype, len |-> len(series), flags |-> series.flags]

\* DataFrame::shape
shape(d) == <<d.height, Len(d.columns)>>

\* DataFrame::columns_names
columns_names(d) == [c \in 1..Len(d.columns) |-> d.columns[c].name]

\* PartialEq::eq for DataFrame
eq(self, rhs) ==
    IF shape(self) # shape(rhs) THEN FALSE
    ELSE IF columns_names(self) # columns_names(rhs) THEN FALSE
    ELSE \A i \in 1..Len(self.columns) :
             LET col_name == columns_names(self)[i]
             IN  debug_fmt(self.columns[column(self, col_name)])
                     = debug_fmt(rhs.columns[column(rhs, col_name)])

\* The tables compared: no column, a column a, or columns a and b.
EqColumns ==
    {Column("a", t, d, f) : t \in DTypes, d \in SeqsUpTo(ValuePool, MaxLen),
                            f \in {flags_default, SeriesFlags(TRUE, FALSE)}}

EqTables ==
    {new_empty}
    \cup {new(<<a>>).df : a \in EqColumns}
    \cup {new(<<a, Column("b", "Int32", [i \in 1..len(a) |-> None], flags_default)>>).df
             : a \in EqColumns}

EqInit ==
    /\ df \in EqTables
    /\ other \in EqTables
    /\ pre = df
    /\ out = FALSE
    /\ op = "init"
    /\ args = NoArgs
    /\ res = Ok
    /\ nref = 0

Eq ==
    /\ op = "init"
    /\ out' = eq(df, other)
    /\ op' = "eq"
    /\ UNCHANGED <<df, pre, other, args, res, nref>>

EqNext == Eq

EqSpec == EqInit /\ [][EqNext]_vars

\* C28 (as stated): two tables compare equal only if they have the same shape,
\* the same column names in the same order and, in every column, the same kind
\* and the same value or missing marker at every row.
C28_EqualOnlyIfSame ==
    (op = "eq" /\ out) =>
        /\ df.height = other.height
        /\ Len(df.columns) = Len(other.columns)
        /\ \A c \in 1..Len(df.columns) :
               /\ df.columns[c].name = other.columns[c].name
               /\ df.columns[c].dtype = other.columns[c].dtype
               /\ df.columns[c].data = other.columns[c].data

(***************************************************************************)
(* Further properties of the joins.  The integer columns of the joined     *)
(* tables hold 100 + 10 * column + row on the left and 200 + 10 * column + *)
(* row on the right, so a result row tells which rows it was made from.    *)
(***************************************************************************)
\* The row of the left (base 100) or right (base 200) table that result row n
\* holds values of, 0 if none.
RowOf(n, base) ==
    LET rows == {out.columns[c].data[n][1] % 10 :
                    c \in {k \in 1..Len(out.columns) :
                              /\ out.columns[k].dtype # "String"
                              /\ out.columns[k].data[n] # None
                              /\ out.columns[k].data[n][1] > base
                              /\ out.columns[k].data[n][1] < base + 100}}
    IN  IF rows = {} THEN 0 ELSE CHOOSE r \in rows : TRUE

LeftRowOf(n) == RowOf(n, 100)

RightRowOf(n) == RowOf(n, 200)

\* C29: outer_join's result has one key column, the left table's: a row made
\* of a left row holds that row's key, a row made of a right row alone holds a
\* missing key, and that right row's key value is in no text column of the row
\* (the other columns hold integers).
C29_OuterJoinKeyFromLeft ==
    Joined("outer_join") =>
        LET key == column(out, args.left_on) IN
        /\ key = column(df, args.left_on)
        /\ {c \in 1..Len(out.columns) : out.columns[c].dtype = "String"} = {key}
        /\ \A n \in 1..out.height :
               IF LeftRowOf(n) # 0
               THEN out.columns[key].data[n] = LeftKeys[LeftRowOf(n)]
               ELSE /\ RightRowOf(n) # 0
                    /\ out.columns[key].data[n] = None
                    /\ RightKeys[RightRowOf(n)] # None =>
                           \A c \in 1..Len(out.columns) :
                               out.columns[c].dtype = "String" =>
                                   out.columns[c].data[n] # RightKeys[RightRowOf(n)]

\* An outer join with a right row that no left row matches and whose key is
\* present, next to a matched pair.
C29_Witness ==
    /\ Joined("outer_join")
    /\ Matches # {}
    /\ \E n \in 1..out.height :
           /\ LeftRowOf(n) = 0
           /\ RightRowOf(n) # 0
           /\ RightKeys[RightRowOf(n)] # None

\* The right rows (0: none) paired with left row i in the result, and the left
\* rows paired with right row j.
PairedWithLeft(i) == {RightRowOf(n) : n \in {m \in 1..out.height : LeftRowOf(m) = i}}

PairedWithRight(j) == {LeftRowOf(n) : n \in {m \in 1..out.height : RightRowOf(m) = j}}

MissingKeyRows(keys) == {r \in 1..Len(keys) : keys[r] = None}

\* C30: in the four joins a row with a missing key is paired with exactly the
\* rows of the other side whose key is missing; when there are none it is left
\* out, or kept unpaired by the joins that keep the unmatched rows of its side.
C30_MissingKeyIsAKey ==
    (\E name \in {"inner_join", "left_join", "right_join", "outer_join"} : Joined(name)) =>
        /\ \A i \in MissingKeyRows(LeftKeys) :
               PairedWithLeft(i) =
                   IF MissingKeyRows(RightKeys) # {} THEN MissingKeyRows(RightKeys)
                   ELSE IF op \in {"left_join", "outer_join"} THEN {0}
                   ELSE {}
        /\ \A j \in MissingKeyRows(RightKeys) :
               PairedWithRight(j) =
                   IF MissingKeyRows(LeftKeys) # {} THEN MissingKeyRows(LeftKeys)
                   ELSE IF op \in {"right_join", "outer_join"} THEN {0}
                   ELSE {}

\* A join that pairs a left row with two right rows, all with a missing key,
\* next to a row with a present key.
C30_Witness ==
    /\ \E name \in {"inner_join", "left_join", "right_join", "outer_join"} : Joined(name)
    /\ Cardinality(MissingKeyRows(RightKeys)) = 2
    /\ \E i \in MissingKeyRows(LeftKeys) : PairedWithLeft(i) = MissingKeyRows(RightKeys)
    /\ \E i \in 1..Len(LeftKeys) : LeftKeys[i] # None

====
